---- MODULE Spec2Model ----
(***************************************************************************)
(* Model of the decko decorator toolkit (src/decko, src/pojang, src/yeezy): *)
(* the singleton metaclass with and without its lock, the freeze class      *)
(* decorators, the Decko.pure purity check, the deckorator decorator        *)
(* factory, the Decko registry, the utility decorators, the Module event    *)
(* queue, run_before, validate_inputs, logger_factory and TimeComputer.     *)
(***************************************************************************)
EXTENDS Integers, Sequences, FiniteSets, TLC

(***************************************************************************)
(* Bounds                                                                  *)
(***************************************************************************)
NumThreads == 2
MaxCalls == 2
MaxObjs == 2
MaxVal == 2
MaxLen == 1
MaxDecoArgs == 2
MaxCallArgs == 1
MaxWrapCalls == 2
MaxDecorations == 4
MaxArg == 2
MaxUtilCalls == 3
MaxOutLen == 2
MaxElapsed == 2
MaxSets == 3
MaxAssigns == 3
MaxLimit == 3
MaxSizeLimit == 2
MaxPos == 2
MaxKw == 1
MaxLogCalls == 5
MaxBlocks == 4
MaxInterval == 3

Threads == 1..NumThreads

VARIABLES
    \* ---- singleton (decorators.py:671-705) ----
    thread_safe,    \* the thread_safe argument of singleton()
    pc,             \* per thread: position inside Singleton.__call__
    lock,           \* Singleton.__lock: 0 when free, else the holding thread
    instance,       \* Singleton.__instance[cls]: 0 when cls is not a key
    newObj,         \* per thread: the object type.__call__ is building
    calls,          \* per thread: constructor calls started
    initRuns,       \* runs of the wrapped __init__ started so far
    initRaised,     \* runs of the wrapped __init__ that raised
    returned,       \* set of instances returned by constructor calls
    raisedTo,       \* per thread: TRUE when its last call ended by an exception
    overlapped,     \* TRUE once two constructor calls have been in progress together
    \* ---- freeze (decorators.py:644-668) ----
    objs,           \* the instances built so far: class, attributes, attributes when built
    frozen,         \* the Immutable classes whose __setattr__ is do_freeze
    nCls,           \* Immutable classes created so far
    fOp,            \* the last operation on a frozen-class instance and its outcome
    \* ---- Decko.pure (app.py:153-203) ----
    heap,           \* the mutable objects (lists) by identity: their length
    pCall,          \* the last call of the pure-decorated function
    pEvents,        \* the event_cb invocations of the last call, in order
    pRaised,        \* the exception the last call raised to its caller
    \* ---- deckorator (decorators.py:166-428) ----
    deco,           \* the decorator built by deckorator(...)(body)
    app,            \* the last call of returned_func: its arguments and outcome
    pend,           \* the wrapped_func closure a successful application returned
    decn,           \* the last call of wrapped_func: its target and outcome
    wrap,           \* the final_func closure of the decorated object
    dcall,          \* the last call of final_func
    nWrapCalls,     \* calls of final_func so far
    nBodyRuns,      \* invocations of the decorator body so far
    nHookRuns,      \* invocations of on_decorator_creation so far
    nApplied,       \* applications of the decorator to a callable so far
    \* ---- Decko registry (app.py:131, 631-655) ----
    functions,      \* Decko.functions: ordered mapping name -> decorated_with
    rOp,            \* the last decorator application through the Decko instance
    firstDecorated, \* the functions decorated so far, in order of first decoration
    nDecorations,   \* decorator applications made so far
    \* ---- utility decorators (decorators.py:600-796, debug.py:165-215) ----
    ucall,          \* the last call of a decorated function: its steps and outcome
    uin,            \* the inputs of that call
    nUtilCalls,     \* calls of the stopwatch-decorated function so far
    sw,             \* stopwatch: callbacks run, calls completed, callbacks that raised
    tcall,          \* the last call of a truncate-decorated function
    xcall,          \* the last call of a try_except-decorated function
    \* ---- Decko.debug (app.py:271-313) ----
    config,         \* Decko.config['debug'], NoVal before construction
    dbgOp,          \* the last assignment to Decko.debug
    dbgHist,        \* the constructor's debug value and the last bool assigned
    nSets,          \* assignments made so far
    \* ---- instance_data (decorators.py:708-760, util.py:269-304) ----
    idCls,          \* the decorated class: the filter and the properties attached
    idObj,          \* __dict__ of the instance, Absent for a missing key
    idOp,           \* the last operation on the class or the instance
    nAssigns        \* attribute assignments made so far

singVars == <<thread_safe, pc, lock, instance, newObj, calls, initRuns,
              initRaised, returned, raisedTo, overlapped>>

freezeVars == <<objs, frozen, nCls, fOp>>

pureVars == <<heap, pCall, pEvents, pRaised>>

deckVars == <<deco, app, pend, decn, wrap, dcall, nWrapCalls, nBodyRuns, nHookRuns, nApplied>>

regVars == <<functions, rOp, firstDecorated, nDecorations>>

utilVars == <<ucall, uin, nUtilCalls, sw>>
truncVars == <<tcall>>
tryVars == <<xcall>>
debugVars == <<config, dbgOp, dbgHist, nSets>>
dataVars == <<idCls, idObj, idOp, nAssigns>>

\* ---------------- state of the later parts ----------------
VARIABLES
    \* ---- Module event queue (decorators.py:494-571) ----
    event_queue, \* Module.event_queue, oldest message first
    event_queue_size_limit, \* Module.event_queue_size_limit
    eqOp, \* the last operation on the module and its outcome
    \* ---- run_before (app.py:657-684) and fill_default_kwargs (util.py:54-65) ----
    rbCall, \* the last call of a run_before-decorated function: inputs, calls made, outcome
    fdk, \* the last call of fill_default_kwargs: kwargs before and after
    \* ---- validate_inputs (validation.py:5-29) ----
    vcall, \* the last call of a validate_inputs-decorated function
    \* ---- logger_factory (pojang/helper/util.py:138-175) ----
    logHandlers, \* logger.handlers of the named logger, in order of attachment
    logOp, \* the last call of logger_factory: handlers before and handlers added
    nLogCalls, \* calls of logger_factory so far
    \* ---- TimeComputer (yeezy/helper/util.py:85-156) ----
    tc, \* the TimeComputer: constructed, log_interval, run_count, _accumulated_time, inside a block
    tcLogs, \* the log_callback invocations so far: list length and run_count passed
    tcHist \* the length of the list at construction and the blocks left so far

modVars == <<event_queue, event_queue_size_limit, eqOp>>
rbVars == <<rbCall, fdk>>
valVars == <<vcall>>
logVars == <<logHandlers, logOp, nLogCalls>>
tcVars == <<tc, tcLogs, tcHist>>

earlierVars == <<singVars, freezeVars, pureVars, deckVars, regVars, utilVars, truncVars, tryVars, debugVars, dataVars>>
laterVars == <<modVars, rbVars, valVars, logVars, tcVars>>

nonModVars == <<earlierVars, rbVars, valVars, logVars, tcVars>>
nonRbVars == <<earlierVars, modVars, valVars, logVars, tcVars>>
nonValVars == <<earlierVars, modVars, rbVars, logVars, tcVars>>
nonLogVars == <<earlierVars, modVars, rbVars, valVars, tcVars>>
nonTcVars == <<earlierVars, modVars, rbVars, valVars, logVars>>
\* ---------------- end of the state of the later parts ----------------

vars == <<singVars, freezeVars, pureVars, deckVars, regVars, utilVars, truncVars, tryVars, debugVars, dataVars, laterVars>>

nonSingVars == <<freezeVars, pureVars, deckVars, regVars, utilVars, truncVars, tryVars, debugVars, dataVars, laterVars>>
nonFreezeVars == <<singVars, pureVars, deckVars, regVars, utilVars, truncVars, tryVars, debugVars, dataVars, laterVars>>
nonPureVars == <<singVars, freezeVars, deckVars, regVars, utilVars, truncVars, tryVars, debugVars, dataVars, laterVars>>
nonDeckVars == <<singVars, freezeVars, pureVars, regVars, utilVars, truncVars, tryVars, debugVars, dataVars, laterVars>>
nonRegVars == <<singVars, freezeVars, pureVars, deckVars, utilVars, truncVars, tryVars, debugVars, dataVars, laterVars>>
nonUtilVars == <<singVars, freezeVars, pureVars, deckVars, regVars, truncVars, tryVars, debugVars, dataVars, laterVars>>
nonTruncVars == <<singVars, freezeVars, pureVars, deckVars, regVars, utilVars, tryVars, debugVars, dataVars, laterVars>>
nonTryVars == <<singVars, freezeVars, pureVars, deckVars, regVars, utilVars, truncVars, debugVars, dataVars, laterVars>>
nonDebugVars == <<singVars, freezeVars, pureVars, deckVars, regVars, utilVars, truncVars, tryVars, dataVars, laterVars>>
nonDataVars == <<singVars, freezeVars, pureVars, deckVars, regVars, utilVars, truncVars, tryVars, debugVars, laterVars>>

(***************************************************************************)
(* singleton(thread_safe=True): Singleton.__call__                         *)
(***************************************************************************)
\* The metaclass right after SingletonWrapped is made: no instance recorded,
\* the lock free, no call in progress.
SingletonCreated ==
    /\ pc = [t \in Threads |-> "idle"]
    /\ lock = 0
    /\ instance = 0
    /\ newObj = [t \in Threads |-> 0]
    /\ calls = [t \in Threads |-> 0]
    /\ initRuns = 0
    /\ initRaised = 0
    /\ returned = {}
    /\ raisedTo = [t \in Threads |-> FALSE]
    /\ overlapped = FALSE

SingletonInit ==
    /\ thread_safe = TRUE
    /\ SingletonCreated

\* A thread calls the class constructor: SingletonWrapped(...)
CallConstructor(t) ==
    /\ pc[t] = "idle"
    /\ calls[t] < MaxCalls
    /\ calls' = [calls EXCEPT ![t] = @ + 1]
    /\ pc' = [pc EXCEPT ![t] = "check1"]
    /\ raisedTo' = [raisedTo EXCEPT ![t] = FALSE]
    /\ overlapped' = (overlapped \/ \E u \in Threads \ {t} : pc[u] # "idle")
    /\ UNCHANGED <<thread_safe, lock, instance, newObj, initRuns, initRaised, returned>>
    /\ UNCHANGED nonSingVars

\* A plausible slip: the membership test is left out.
Check1NoTest(t) ==
    /\ pc[t] = "check1"
    /\ pc' = [pc EXCEPT ![t] = IF thread_safe THEN "acquire" ELSE "init"]
    /\ UNCHANGED <<thread_safe, overlapped, lock, instance, newObj, calls, initRuns, initRaised,
                   returned, raisedTo>>
    /\ UNCHANGED nonSingVars

\* if cls not in cls.__instance:   (first, unlocked test)
Check1(t) ==
    /\ pc[t] = "check1"
    /\ pc' = [pc EXCEPT ![t] = IF instance # 0 THEN "ret"
                               ELSE IF thread_safe THEN "acquire" ELSE "init"]
    /\ UNCHANGED <<thread_safe, overlapped, lock, instance, newObj, calls, initRuns, initRaised,
                   returned, raisedTo>>
    /\ UNCHANGED nonSingVars

\* with cls.__lock:   (blocks while another thread holds the lock)
Acquire(t) ==
    /\ pc[t] = "acquire"
    /\ lock = 0
    /\ lock' = t
    /\ pc' = [pc EXCEPT ![t] = "check2"]
    /\ UNCHANGED <<thread_safe, overlapped, instance, newObj, calls, initRuns, initRaised,
                   returned, raisedTo>>
    /\ UNCHANGED nonSingVars

\* A plausible slip: the test under the lock is left out.
Check2NoRecheck(t) ==
    /\ pc[t] = "check2"
    /\ pc' = [pc EXCEPT ![t] = "init"]
    /\ UNCHANGED <<thread_safe, overlapped, lock, instance, newObj, calls, initRuns, initRaised,
                   returned, raisedTo>>
    /\ UNCHANGED nonSingVars

\* if cls not in cls.__instance:   (second test, under the lock)
Check2(t) ==
    /\ pc[t] = "check2"
    /\ pc' = [pc EXCEPT ![t] = IF instance # 0 THEN "release" ELSE "init"]
    /\ UNCHANGED <<thread_safe, overlapped, lock, instance, newObj, calls, initRuns, initRaised,
                   returned, raisedTo>>
    /\ UNCHANGED nonSingVars

\* A plausible slip: the new object is recorded before its __init__ has returned.
RunInitRecordsFirst(t) ==
    /\ pc[t] = "init"
    /\ initRuns' = initRuns + 1
    /\ instance' = initRuns + 1
    /\ \E ok \in BOOLEAN :
         IF ok
         THEN /\ newObj' = [newObj EXCEPT ![t] = initRuns + 1]
              /\ pc' = [pc EXCEPT ![t] = "store"]
              /\ UNCHANGED <<initRaised, raisedTo>>
         ELSE /\ newObj' = [newObj EXCEPT ![t] = 0]
              /\ initRaised' = initRaised + 1
              /\ raisedTo' = [raisedTo EXCEPT ![t] = TRUE]
              /\ pc' = [pc EXCEPT ![t] = IF thread_safe THEN "release" ELSE "idle"]
    /\ UNCHANGED <<thread_safe, overlapped, lock, calls, returned>>
    /\ UNCHANGED nonSingVars

\* super(Singleton, cls).__call__(*args, **kwargs): a fresh object is made and
\* the wrapped __init__ runs on it; __init__ returns normally or raises.
RunInit(t) ==
    /\ pc[t] = "init"
    /\ initRuns' = initRuns + 1
    /\ \E ok \in BOOLEAN :
         IF ok
         THEN /\ newObj' = [newObj EXCEPT ![t] = initRuns + 1]
              /\ pc' = [pc EXCEPT ![t] = "store"]
              /\ UNCHANGED <<initRaised, raisedTo>>
         ELSE /\ newObj' = [newObj EXCEPT ![t] = 0]
              /\ initRaised' = initRaised + 1
              /\ raisedTo' = [raisedTo EXCEPT ![t] = TRUE]
              /\ pc' = [pc EXCEPT ![t] = IF thread_safe THEN "release" ELSE "idle"]
    /\ UNCHANGED <<thread_safe, overlapped, lock, instance, calls, returned>>
    /\ UNCHANGED nonSingVars

\* cls.__instance[cls] = <the new object>
Store(t) ==
    /\ pc[t] = "store"
    /\ instance' = newObj[t]
    /\ pc' = [pc EXCEPT ![t] = IF thread_safe THEN "release" ELSE "ret"]
    /\ UNCHANGED <<thread_safe, overlapped, lock, newObj, calls, initRuns, initRaised,
                   returned, raisedTo>>
    /\ UNCHANGED nonSingVars

\* A plausible slip: lock.acquire()/lock.release() without try/finally, so
\* that the lock stays held when __init__ raises.
ReleaseOnlyOnSuccess(t) ==
    /\ pc[t] = "release"
    /\ lock = t
    /\ lock' = IF raisedTo[t] THEN t ELSE 0
    /\ pc' = [pc EXCEPT ![t] = IF raisedTo[t] THEN "idle" ELSE "ret"]
    /\ UNCHANGED <<thread_safe, overlapped, instance, newObj, calls, initRuns, initRaised,
                   returned, raisedTo>>
    /\ UNCHANGED nonSingVars

\* leaving the with block (normally or by the exception of __init__)
Release(t) ==
    /\ pc[t] = "release"
    /\ lock = t
    /\ lock' = 0
    /\ pc' = [pc EXCEPT ![t] = IF raisedTo[t] THEN "idle" ELSE "ret"]
    /\ UNCHANGED <<thread_safe, overlapped, instance, newObj, calls, initRuns, initRaised,
                   returned, raisedTo>>
    /\ UNCHANGED nonSingVars

\* return cls.__instance[cls]
Return(t) ==
    /\ pc[t] = "ret"
    /\ returned' = returned \cup {instance}
    /\ pc' = [pc EXCEPT ![t] = "idle"]
    /\ UNCHANGED <<thread_safe, overlapped, lock, instance, newObj, calls, initRuns, initRaised,
                   raisedTo>>
    /\ UNCHANGED nonSingVars

SingletonNext ==
    \E t \in Threads :
        \/ CallConstructor(t)
        \/ Check1(t)
        \/ Acquire(t)
        \/ Check2(t)
        \/ RunInit(t)
        \/ Store(t)
        \/ Release(t)
        \/ Return(t)

(***************************************************************************)
(* freeze: class Immutable(cls) with __setattr__ replaced by do_freeze     *)
(***************************************************************************)
Values == 1..MaxVal
Absent == 0
MethodFn == MaxVal + 1
PrintFn == MaxVal + 2
AttrNames == {"a", "b", "method", "new_prop"}
AttrValues == Values \cup {MethodFn, PrintFn}

FreezeInit ==
    /\ objs = <<>>
    /\ frozen = {}
    /\ nCls = 0
    /\ fOp = [op |-> "none", raised |-> "none"]

\* A plausible slip: do_freeze guards only the attributes that already exist.
ClassSetAttrExistingOnly(o, name, value) ==
    IF o.cls \in frozen /\ o.attrs[name] # Absent
    THEN [raised |-> "ImmutableError", obj |-> o]
    ELSE [raised |-> "none", obj |-> [o EXCEPT !.attrs[name] = value]]

\* obj.name = value: type(obj).__setattr__(obj, name, value), which is
\* do_freeze once setattr(Immutable, '__setattr__', do_freeze) has run for
\* the object's class, and object.__setattr__ before.
ClassSetAttr(o, name, value) ==
    IF o.cls \in frozen
    THEN [raised |-> "ImmutableError", obj |-> o]
    ELSE [raised |-> "none", obj |-> [o EXCEPT !.attrs[name] = value]]

\* The instance type.__call__ hands to __init__: no instance attribute yet,
\* the method of the wrapped class visible through the class.
BlankObj(c) ==
    [cls |-> c,
     attrs |-> [n \in AttrNames |-> IF n = "method" THEN MethodFn ELSE Absent]]

\* The wrapped class's __init__(self, a, b): self.a = a; self.b = b
WrappedInit(o, a, b) ==
    LET r1 == ClassSetAttr(o, "a", a)
    IN  IF r1.raised # "none" THEN r1 ELSE ClassSetAttr(r1.obj, "b", b)

\* freeze(cls, *args): a new class Immutable(cls) is made, Immutable(*args)
\* runs the wrapped __init__ and then installs do_freeze on the new class.
FreezeCall(a, b) ==
    /\ Len(objs) < MaxObjs
    /\ LET c == nCls + 1
           r == WrappedInit(BlankObj(c), a, b)
       IN  /\ nCls' = c
           /\ IF r.raised = "none"
              THEN /\ frozen' = frozen \cup {c}
                   /\ objs' = Append(objs, [cls |-> c, attrs |-> r.obj.attrs,
                                            built |-> r.obj.attrs])
              ELSE UNCHANGED <<frozen, objs>>
           /\ fOp' = [op |-> "construct", raised |-> r.raised]
    /\ UNCHANGED nonFreezeVars

\* instance.name = value on a constructed instance
AssignAttr(i, name, value) ==
    /\ i \in 1..Len(objs)
    /\ LET r == ClassSetAttr(objs[i], name, value)
       IN  /\ objs' = [objs EXCEPT ![i].attrs = r.obj.attrs]
           /\ fOp' = [op |-> "assign", raised |-> r.raised, obj |-> i,
                      name |-> name, value |-> value]
    /\ UNCHANGED <<frozen, nCls>>
    /\ UNCHANGED nonFreezeVars

\* Decko.freeze(cls): a new class Immutable(cls) is made and returned; no
\* instance is built and __setattr__ is still object.__setattr__.
DeckoFreeze ==
    /\ nCls < MaxObjs
    /\ nCls' = nCls + 1
    /\ fOp' = [op |-> "decorate", raised |-> "none", cls |-> nCls + 1]
    /\ UNCHANGED <<objs, frozen>>
    /\ UNCHANGED nonFreezeVars

\* Immutable(a, b) for a class c returned by Decko.freeze: the wrapped
\* __init__ runs on a fresh object, then do_freeze is installed on the class.
Instantiate(c, a, b) ==
    /\ c \in 1..nCls
    /\ Len(objs) < MaxObjs
    /\ LET r == WrappedInit(BlankObj(c), a, b)
       IN  /\ IF r.raised = "none"
              THEN /\ frozen' = frozen \cup {c}
                   /\ objs' = Append(objs, [cls |-> c, attrs |-> r.obj.attrs,
                                            built |-> r.obj.attrs])
              ELSE UNCHANGED <<frozen, objs>>
           /\ fOp' = [op |-> "instantiate", raised |-> r.raised, cls |-> c]
    /\ UNCHANGED nCls
    /\ UNCHANGED nonFreezeVars

DeckoFreezeNext ==
    \/ DeckoFreeze
    \/ \E c \in 1..MaxObjs, a, b \in Values : Instantiate(c, a, b)
    \/ \E i \in 1..MaxObjs, name \in AttrNames, value \in AttrValues :
          AssignAttr(i, name, value)

FreezeNext ==
    \/ \E a, b \in Values : FreezeCall(a, b)
    \/ \E i \in 1..MaxObjs, name \in AttrNames, value \in AttrValues :
          AssignAttr(i, name, value)

(***************************************************************************)
(* Decko.pure: compare the arguments before and after the call             *)
(***************************************************************************)
\* The decorated function: def f(a, b, c=[])
Params == <<"a", "b", "c">>
ParamSet == {"a", "b", "c"}
Empty == 0              \* inspect.Parameter.empty
DefaultList == 1        \* the list object that is the default of c
CallerObjs == {2, 3}    \* list objects the caller owns
ObjIds == {DefaultList} \cup CallerObjs

ParamDefault(p) == IF p = "c" THEN DefaultList ELSE Empty

PureInit ==
    /\ heap = [o \in ObjIds |-> 0]
    /\ pCall = [op |-> "none"]
    /\ pEvents = <<>>
    /\ pRaised = "none"

\* get_shallow_default_arg_dict(fn, args): the first len(args) parameters
\* are paired with args, every later parameter with its declared default.
\* The result is listed in parameter order (dict insertion order).
GetShallowDefaultArgDict(nPos, bound) ==
    [i \in 1..Len(Params) |->
        IF i > nPos THEN ParamDefault(Params[i]) ELSE bound[Params[i]]]

\* The value of a reference in a heap (the sentinel compares equal to itself).
Deref(h, ref) == IF ref = Empty THEN Empty ELSE h[ref]

\* The function body appends once to the object bound to each parameter in mut.
RECURSIVE ApplyBody(_, _, _)
ApplyBody(h, bound, mut) ==
    IF mut = {} THEN h
    ELSE LET q == CHOOSE x \in mut : TRUE
         IN  ApplyBody([h EXCEPT ![bound[q]] = @ + 1], bound, mut \ {q})

\* for key, value in input_data.items(): if value != original_input[key]:
\*     event_cb(key, before, after)
\* in key order; the default event_cb raises at the first such key.
RECURSIVE CheckInputs(_, _, _, _, _)
CheckInputs(i, input_data, original, h, hasCb) ==
    IF i > Len(Params) THEN [events |-> <<>>, raised |-> "none"]
    ELSE LET before == Deref(original, input_data[i])
             after == Deref(h, input_data[i])
         IN  IF after # before
             THEN IF hasCb
                  THEN LET rest == CheckInputs(i + 1, input_data, original, h, hasCb)
                       IN  [events |-> <<[name |-> Params[i], before |-> before,
                                          after |-> after]>> \o rest.events,
                            raised |-> rest.raised]
                  ELSE [events |-> <<[name |-> Params[i], before |-> before,
                                      after |-> after]>>,
                        raised |-> "MutatedReferenceError"]
             ELSE CheckInputs(i + 1, input_data, original, h, hasCb)

\* The bindings Python accepts for f: the first nPos parameters positionally,
\* the parameters in kw by keyword, a and b always supplied, c defaulted
\* when it is supplied neither way.
ValidCall(nPos, kw, bound) ==
    /\ kw \subseteq {Params[i] : i \in (nPos + 1)..Len(Params)}
    /\ \A i \in 1..Len(Params) :
         LET q == Params[i]
         IN  IF i <= nPos \/ q \in kw
             THEN bound[q] \in CallerObjs
             ELSE q = "c" /\ bound[q] = DefaultList

\* inner(*args, **kwargs) of Decko.pure, the whole call
PureCall(nPos, kw, bound, mut, hasCb) ==
    /\ ValidCall(nPos, kw, bound)
    /\ \A o \in ObjIds : heap[o] < MaxLen
    /\ LET input_data == GetShallowDefaultArgDict(nPos, bound)
           original == heap          \* copy.deepcopy(input_data)
           h2 == ApplyBody(heap, bound, mut)
           r == CheckInputs(1, input_data, original, h2, hasCb)
       IN  /\ heap' = h2
           /\ pEvents' = r.events
           /\ pRaised' = r.raised
           /\ pCall' = [op |-> "call", nPos |-> nPos, kw |-> kw, bound |-> bound,
                        mut |-> mut, hasCb |-> hasCb, before |-> heap]
    /\ UNCHANGED nonPureVars

PureNext ==
    \E nPos \in 0..Len(Params), kw \in SUBSET ParamSet,
       bound \in [ParamSet -> ObjIds], mut \in SUBSET ParamSet, hasCb \in BOOLEAN :
        PureCall(nPos, kw, bound, mut, hasCb)

(***************************************************************************)
(* deckorator: the decorator factory                                       *)
(***************************************************************************)
\* Python values by type and identity.
V(ty, id) == [ty |-> ty, id |-> id]
NoneVal == V("NoneType", 0)
NoVal == V("absent", 0)            \* key not in decorator_kwargs
Int1 == V("int", 1)
Int2 == V("int", 2)
Str1 == V("str", 1)
F1 == V("function", 1)             \* a function to decorate
PrintV == V("function", 2)         \* the builtin print
C1 == V("class", 1)                \* a class to decorate
OwnerCls == V("class", 2)          \* the class that defines a decorator method
OwnerObj == V("instance", 1)       \* an instance of it
FalsyOwner == V("instance", 0)     \* an instance of it whose truth value is False
HookVal == V("logger", 1)          \* a value on_decorator_creation returns

\* bool(v)
Truthy(v) == v # NoneVal /\ v # FalsyOwner

\* isinstance(v, t.Callable)
IsCallable(v) == v.ty \in {"function", "class"}

\* inspect.isclass(v)
IsClass(v) == v.ty = "class"

\* isinstance(v, T) for a type or a tuple of types T, given as a set of type
\* names; the empty tuple matches nothing.
IsInstance(v, T) ==
    \E ty \in T : \/ ty = "object"
                  \/ ty = v.ty
                  \/ ty = "Callable" /\ IsCallable(v)

\* A keyword template: name=(default, T1, ..., Tn) or name=value.
TupleTmpl(key, default, types) ==
    [key |-> key, isTuple |-> TRUE, len |-> 1 + Cardinality(types),
     default |-> default, types |-> types]
PlainTmpl(key, value) ==
    [key |-> key, isTuple |-> FALSE, len |-> 0, default |-> value, types |-> {}]

\* deckorator(*type_template_args, is_class_decorator, on_decorator_creation,
\*            **type_template_kwargs) applied to a body of the given kind.
Deckorator(name, kind, targs, tkw, isClass, hook) ==
    [st |-> "defined", name |-> name, kind |-> kind, targs |-> targs, tkw |-> tkw,
     isClass |-> isClass, hook |-> hook]

\* The decorators the repository and its tests build.
Catalogue == {
    Deckorator("execute_if", "function", <<{"Callable"}>>, <<>>, FALSE, "none"),
    Deckorator("freeze", "function", <<>>, <<>>, TRUE, "none"),
    Deckorator("valid_decorator", "function", <<>>,
               <<TupleTmpl("kwarg_val", Int1, {"int", "float", "str"}),
                 PlainTmpl("new_kw", PrintV)>>, FALSE, "none"),
    Deckorator("a_decorator", "function", <<{"float", "int"}>>,
               <<PlainTmpl("kwarg_val", Int1)>>, FALSE, "none"),
    Deckorator("decorator_method", "method", <<{"int"}>>, <<>>, FALSE, "none"),
    Deckorator("static_decorator_method", "staticmethod", <<>>, <<>>, FALSE, "none"),
    Deckorator("class_decorator_method", "classmethod", <<>>, <<>>, FALSE, "none"),
    Deckorator("log_trace", "function", <<{"str"}>>,
               <<TupleTmpl("truncate_longer_than", Int1, {"int"})>>, FALSE, "values"),
    Deckorator("module_method", "method", <<{"int"}>>, <<>>, FALSE, "returns_none"),
    Deckorator("hooked_decorator", "function", <<{"int"}>>, <<>>, FALSE, "returns_none")
}

NoDeco ==
    [st |-> "none", name |-> "", kind |-> "function", targs |-> <<>>, tkw |-> <<>>,
     isClass |-> FALSE, hook |-> "none"]
NoClosure == [st |-> "none"]

KeysOf(d) == {d.tkw[j].key : j \in 1..Len(d.tkw)}

\* _handle_method(function_to_evaluate, args): the first argument is split
\* off when looking the decorator's name up on it yields a bound method whose
\* __func__.original is the body, i.e. when it is the instance (method) or
\* the class (classmethod) the decorator was reached through.
HandleMethod(d, args) ==
    IF Len(args) > 0
       /\ \/ d.kind = "method" /\ args[1].ty = "instance"
          \/ d.kind = "classmethod" /\ args[1] = OwnerCls
    THEN [self |-> args[1], args |-> Tail(args)]
    ELSE [self |-> NoneVal, args |-> args]

\* The loop body of _handle_decorator_kwargs for one keyword template.
KwValue(t, kw) ==
    LET use_default == kw[t.key] = NoVal
        is_non_empty_tuple == t.isTuple /\ t.len > 0
    IN  IF use_default /\ is_non_empty_tuple THEN t.default
        ELSE IF ~t.isTuple THEN t.default
        ELSE kw[t.key]

KwTypes(t, kw) ==
    LET use_default == kw[t.key] = NoVal
        is_non_empty_tuple == t.isTuple /\ t.len > 0
    IN  IF use_default /\ is_non_empty_tuple THEN t.types ELSE {"object"}

\* _handle_decorator_kwargs(type_template_args, type_template_kwargs,
\*                          decorator_args, decorator_kwargs)
HandleDecoratorKwargs(targs, tkw, args, kw) ==
    IF \E j \in 1..Len(tkw) : tkw[j].isTuple /\ tkw[j].len = 0
    THEN [raised |-> "ValueError", values |-> <<>>, types |-> <<>>]
    ELSE [raised |-> "none",
          values |-> args \o [j \in 1..Len(tkw) |-> KwValue(tkw[j], kw)],
          types |-> targs \o [j \in 1..Len(tkw) |-> KwTypes(tkw[j], kw)]]

\* on_decorator_creation(...): the repository's hooks either return the
\* values to hand to the body (_init_logger) or return None (register_object).
HookResult(d) ==
    IF d.hook = "values" THEN [isNone |-> FALSE, vals |-> <<HookVal>>]
    ELSE [isNone |-> TRUE, vals |-> <<>>]

Wrapper(branch, self, fn, usePre, pre, decoArgs) ==
    [st |-> "wrapper", branch |-> branch, self |-> self, fn |-> fn,
     usePre |-> usePre, preNone |-> pre.isNone, pre |-> pre.vals,
     decoArgs |-> decoArgs]

NoPre == [isNone |-> FALSE, vals |-> <<>>]

\* A plausible slip: the is_class_decorator test is left out.
WrappedFuncNoClassCheck(d, clo, obj) ==
    LET hooked == IsCallable(obj) /\ d.hook # "none"
        pre == IF hooked THEN HookResult(d) ELSE NoPre
    IN  [out |-> "wrapper", hookRan |-> hooked,
         w |-> Wrapper(clo.branch, clo.self, obj, hooked, pre, clo.decoArgs)]

\* wrapped_func(decorated_function) of either branch of returned_func
WrappedFunc(d, clo, obj) ==
    IF d.isClass /\ ~IsClass(obj)
    THEN [out |-> "TypeError", hookRan |-> FALSE, w |-> NoClosure]
    ELSE LET hooked == IsCallable(obj) /\ d.hook # "none"
             pre == IF hooked THEN HookResult(d) ELSE NoPre
         IN  IF clo.branch = "method"
             THEN \* if preprocessed_output: ... *preprocessed_output ...
                  LET use == hooked /\ ~pre.isNone /\ pre.vals # <<>>
                  IN  [out |-> "wrapper", hookRan |-> hooked,
                       w |-> Wrapper("method", clo.self, obj, use,
                                     IF use THEN pre ELSE NoPre, clo.decoArgs)]
             ELSE [out |-> "wrapper", hookRan |-> hooked,
                   w |-> Wrapper("function", clo.self, obj, hooked, pre, clo.decoArgs)]

Closure(branch, self, decoArgs) ==
    [st |-> "closure", branch |-> branch, self |-> self, decoArgs |-> decoArgs]

AppResult(out, clo, w, hookRan, bare, target) ==
    [out |-> out, clo |-> clo, w |-> w, hookRan |-> hookRan, bare |-> bare,
     target |-> target]

\* A plausible slip: the bare form keeps the function among the decorator
\* arguments (decorator_args = () is left out).
ReturnedFuncKeepsArg(d, rawArgs, kw) ==
    LET hm == HandleMethod(d, rawArgs)
        merged == HandleDecoratorKwargs(d.targs, d.tkw, hm.args, kw)
        branch == IF Truthy(hm.self) THEN "method" ELSE "function"
        decorator_args == merged.values
        types == merged.types
    IN  IF merged.raised # "none"
        THEN AppResult(merged.raised, NoClosure, NoClosure, FALSE, FALSE, NoneVal)
        ELSE IF Len(decorator_args) = 1 /\ Len(types) = 0
        THEN LET r == WrappedFunc(d, Closure(branch, hm.self, decorator_args),
                                  decorator_args[1])
             IN  AppResult(r.out, NoClosure, r.w, r.hookRan, TRUE, decorator_args[1])
        ELSE IF Len(decorator_args) # Len(types)
        THEN AppResult("ValueError", NoClosure, NoClosure, FALSE, FALSE, NoneVal)
        ELSE IF \E k \in 1..Len(types) : ~IsInstance(decorator_args[k], types[k])
        THEN AppResult("TypeError", NoClosure, NoClosure, FALSE, FALSE, NoneVal)
        ELSE AppResult("pending", Closure(branch, hm.self, decorator_args),
                       NoClosure, FALSE, FALSE, NoneVal)

\* returned_func(*decorator_args, **decorator_kwargs)
ReturnedFunc(d, rawArgs, kw) ==
    LET hm == HandleMethod(d, rawArgs)
        merged == HandleDecoratorKwargs(d.targs, d.tkw, hm.args, kw)
        branch == IF Truthy(hm.self) THEN "method" ELSE "function"
        decorator_args == merged.values
        types == merged.types
    IN  IF merged.raised # "none"
        THEN AppResult(merged.raised, NoClosure, NoClosure, FALSE, FALSE, NoneVal)
        ELSE IF Len(decorator_args) = 1 /\ Len(types) = 0
        THEN \* called with zero args: the argument is the object to wrap
             LET r == WrappedFunc(d, Closure(branch, hm.self, <<>>), decorator_args[1])
             IN  AppResult(r.out, NoClosure, r.w, r.hookRan, TRUE, decorator_args[1])
        ELSE IF Len(decorator_args) # Len(types)
        THEN AppResult("ValueError", NoClosure, NoClosure, FALSE, FALSE, NoneVal)
        ELSE IF \E k \in 1..Len(types) : ~IsInstance(decorator_args[k], types[k])
        THEN AppResult("TypeError", NoClosure, NoClosure, FALSE, FALSE, NoneVal)
        ELSE AppResult("pending", Closure(branch, hm.self, decorator_args),
                       NoClosure, FALSE, FALSE, NoneVal)

\* What calling f with the positional arguments args yields: the undecorated
\* function is deterministic, so its result is named by f and args.
FnResult(f, args) == [fn |-> f, args |-> args]
NoResult == [fn |-> NoneVal, args |-> <<>>]

\* The number of parameters the body declares before *args: self or cls for
\* a method or classmethod, the decorated function, one per value the hook
\* returns, one per positional and keyword template.
BodyArity(d) ==
    (IF d.kind \in {"method", "classmethod"} THEN 1 ELSE 0) + 1
    + (IF d.hook = "values" THEN Len(HookResult(d).vals) ELSE 0)
    + Len(d.targs) + Len(d.tkw)

\* A decorator body that only forwards the call:
\*     def body([self,] function_to_decorate, <decorator args>, *args, **kwargs):
\*         return function_to_decorate(*args, **kwargs)
\* bound to the positional arguments final_func passes.
Body(d, bodyArgs) ==
    LET fnAt == IF d.kind \in {"method", "classmethod"} THEN 2 ELSE 1
    IN  IF Len(bodyArgs) < BodyArity(d)
        THEN [raised |-> "TypeError", ret |-> NoResult]
        ELSE IF ~IsCallable(bodyArgs[fnAt])
        THEN [raised |-> "TypeError", ret |-> NoResult]
        ELSE [raised |-> "none",
              ret |-> FnResult(bodyArgs[fnAt],
                               SubSeq(bodyArgs, BodyArity(d) + 1, Len(bodyArgs)))]

CallResult(raised, bodyRan, bodyArgs, bodyRet, ret) ==
    [raised |-> raised, bodyRan |-> bodyRan, bodyArgs |-> bodyArgs,
     bodyRet |-> bodyRet, ret |-> ret]

\* A plausible slip: the call's arguments are passed before the decorator's.
FinalFuncArgsSwapped(d, w, callArgs) ==
    LET bodyArgs == (IF w.branch = "method" THEN <<w.self>> ELSE <<>>)
                    \o <<w.fn>> \o (IF w.usePre THEN w.pre ELSE <<>>)
                    \o callArgs \o w.decoArgs
        b == Body(d, bodyArgs)
    IN  CallResult(b.raised, TRUE, bodyArgs, b.ret, b.ret)

\* final_func(*args, **kwargs): the body is called with [cls_or_self,] the
\* decorated object, [*preprocessed_output,] *decorator_args, *args.
FinalFunc(d, w, callArgs) ==
    IF w.usePre /\ w.preNone
    THEN \* *preprocessed_output with None: TypeError before the body is called
         CallResult("TypeError", FALSE, <<>>, NoResult, NoResult)
    ELSE LET bodyArgs == (IF w.branch = "method" THEN <<w.self>> ELSE <<>>)
                         \o <<w.fn>> \o (IF w.usePre THEN w.pre ELSE <<>>)
                         \o w.decoArgs \o callArgs
             b == Body(d, bodyArgs)
         IN  CallResult(b.raised, TRUE, bodyArgs, b.ret, b.ret)

\* Inputs
SeqsUpTo(S, n) == UNION {[1..k -> S] : k \in 0..n}
DecoArgValues == {Int2, Str1, F1, C1}
KwArgValues == {Int2, Str1}
DecoTargets == {F1, C1, Int2}
CallArgValues == {Int1, Int2}

\* How the decorator is reached: through an instance for a method, through
\* the class for a classmethod, directly otherwise.
OwnerArgs(d) ==
    IF d.kind = "method" THEN {<<OwnerObj>>, <<FalsyOwner>>}
    ELSE IF d.kind = "classmethod" THEN {<<OwnerCls>>}
    ELSE {<<>>}

DeckInit ==
    /\ deco = NoDeco
    /\ app = [op |-> "none"]
    /\ pend = NoClosure
    /\ decn = [op |-> "none", obj |-> NoneVal, out |-> "none", decorated |-> NoneVal]
    /\ wrap = NoClosure
    /\ dcall = [op |-> "none"]
    /\ nWrapCalls = 0
    /\ nBodyRuns = 0
    /\ nHookRuns = 0
    /\ nApplied = 0

\* deckorator(...)(new_decorator_function): inner builds returned_func
DefineDecorator(d) ==
    /\ deco = NoDeco
    /\ deco' = d
    /\ UNCHANGED <<app, pend, decn, wrap, dcall, nWrapCalls, nBodyRuns, nHookRuns, nApplied>>
    /\ UNCHANGED nonDeckVars

\* returned_func(*decorator_args, **decorator_kwargs): @deco(...) or @deco
ApplyDecorator(owner, pos) ==
    /\ deco # NoDeco
    /\ app.op = "none"
    /\ owner \in OwnerArgs(deco)
    /\ \E kw \in [KeysOf(deco) -> KwArgValues \cup {NoVal}] :
         LET r == ReturnedFunc(deco, owner \o pos, kw)
         IN  /\ app' = [op |-> "apply", owner |-> owner, pos |-> pos, kw |-> kw,
                        out |-> r.out, bare |-> r.bare]
             /\ pend' = r.clo
             /\ decn' = IF r.bare
                        THEN [op |-> "decorate", obj |-> r.target, out |-> r.out,
                              decorated |-> IF r.out = "wrapper" THEN r.target
                                            ELSE decn.decorated]
                        ELSE decn
             /\ wrap' = IF r.out = "wrapper" THEN r.w ELSE wrap
             /\ nHookRuns' = nHookRuns + (IF r.hookRan THEN 1 ELSE 0)
             /\ nApplied' = nApplied + (IF r.bare /\ r.out = "wrapper" /\ IsCallable(r.target)
                                        THEN 1 ELSE 0)
    /\ UNCHANGED <<deco, dcall, nWrapCalls, nBodyRuns>>
    /\ UNCHANGED nonDeckVars

\* wrapped_func(obj): the decorator returned by @deco(...) is applied to obj
DecorateObject(obj) ==
    /\ pend # NoClosure
    /\ nHookRuns < MaxWrapCalls
    /\ nApplied < MaxWrapCalls
    /\ LET r == WrappedFunc(deco, pend, obj)
       IN  /\ decn' = [op |-> "decorate", obj |-> obj, out |-> r.out,
                       decorated |-> IF r.out = "wrapper" THEN obj ELSE decn.decorated]
           /\ IF r.out = "wrapper"
              THEN /\ wrap' = r.w
                   /\ dcall' = [op |-> "none"]
                   /\ nWrapCalls' = 0
                   /\ nBodyRuns' = 0
              ELSE UNCHANGED <<wrap, dcall, nWrapCalls, nBodyRuns>>
           /\ nHookRuns' = nHookRuns + (IF r.hookRan THEN 1 ELSE 0)
           /\ nApplied' = nApplied + (IF r.out = "wrapper" /\ IsCallable(obj) THEN 1 ELSE 0)
    /\ UNCHANGED <<deco, app, pend>>
    /\ UNCHANGED nonDeckVars

\* final_func(*args): the decorated object is called
CallDecorated(callArgs) ==
    /\ wrap # NoClosure
    /\ nWrapCalls < MaxWrapCalls
    /\ LET r == FinalFunc(deco, wrap, callArgs)
       IN  /\ dcall' = [op |-> "call", args |-> callArgs, raised |-> r.raised,
                        bodyRan |-> r.bodyRan, bodyArgs |-> r.bodyArgs,
                        bodyRet |-> r.bodyRet, ret |-> r.ret]
           /\ nBodyRuns' = nBodyRuns + (IF r.bodyRan THEN 1 ELSE 0)
    /\ nWrapCalls' = nWrapCalls + 1
    /\ UNCHANGED <<deco, app, pend, decn, wrap, nHookRuns, nApplied>>
    /\ UNCHANGED nonDeckVars

DeckNext ==
    \/ \E d \in Catalogue : DefineDecorator(d)
    \/ \E owner \in SeqsUpTo({OwnerObj, FalsyOwner, OwnerCls}, 1),
          pos \in SeqsUpTo(DecoArgValues, MaxDecoArgs) : ApplyDecorator(owner, pos)
    \/ \E obj \in DecoTargets : DecorateObject(obj)
    \/ \E callArgs \in SeqsUpTo(CallArgValues, MaxCallArgs) : CallDecorated(callArgs)

(***************************************************************************)
(* Decko: the registry of decorated functions                              *)
(***************************************************************************)
\* get_unique_func_name of the functions a program decorates
FuncNames == {"mod.f1", "mod.f2"}

\* get_unique_func_name(func): '<module>.<qualname>' of the Decko methods
PureName == "src.decko.app.Decko.pure"
ProfileName == "src.decko.app.Decko.profile"
SlowerThanName == "src.decko.app.Decko.slower_than"
ExecuteIfName == "src.decko.app.Decko.execute_if"
RunBeforeName == "src.decko.app.Decko.run_before"

RegistryInit ==
    /\ functions = <<>>
    /\ rOp = [op |-> "none", func |-> "none", raised |-> "none"]
    /\ firstDecorated = <<>>
    /\ nDecorations = 0

RegistryKeys(fns) == [i \in 1..Len(fns) |-> fns[i].name]

KeyIndex(fns, name) == CHOOSE i \in 1..Len(fns) : fns[i].name = name

\* _update_decoration_info(decorator_func, func_to_decorate, props), with
\* decorator_func_name and func_name the unique names of its two arguments
UpdateDecorationInfo(fns, decorator_func_name, func_name) ==
    IF \E i \in 1..Len(fns) : fns[i].name = func_name
    THEN LET i == KeyIndex(fns, func_name)
         IN  IF \E k \in 1..Len(fns[i].decorated_with) :
                    fns[i].decorated_with[k] = decorator_func_name
             THEN [raised |-> "DuplicateDecoratorError", functions |-> fns]
             ELSE [raised |-> "none",
                   functions |-> [fns EXCEPT ![i].decorated_with =
                                      Append(@, decorator_func_name)]]
    ELSE [raised |-> "none",
          functions |-> Append(fns, [name |-> func_name,
                                     decorated_with |-> <<decorator_func_name>>])]

\* add_decorator_rule(decorator_func, obj_to_decorate) for a function:
\* _add_function_decorator_rule -> _update_decoration_info
AddDecoratorRule(fns, decorator_func_name, obj_name) ==
    UpdateDecorationInfo(fns, decorator_func_name, obj_name)

\* The functions decorated so far in the order of their first decoration,
\* after f has been decorated (a raising application decorates nothing).
FirstDecorated(hist, f, raised) ==
    IF raised = "none" /\ \A i \in 1..Len(hist) : hist[i] # f
    THEN Append(hist, f) ELSE hist

\* @decko.pure() applied to f: self._decorate(self.pure, inner)
DeckoPure(f) ==
    LET r == AddDecoratorRule(functions, PureName, f)
    IN  /\ nDecorations < MaxDecorations
        /\ nDecorations' = nDecorations + 1
        /\ functions' = r.functions
        /\ rOp' = [op |-> "pure", func |-> f, raised |-> r.raised]
        /\ firstDecorated' = FirstDecorated(firstDecorated, f, r.raised)
        /\ UNCHANGED nonRegVars

\* @decko.profile applied to f: self.add_decorator_rule(func, self.profile)
DeckoProfile(f) ==
    LET r == AddDecoratorRule(functions, f, ProfileName)
    IN  /\ nDecorations < MaxDecorations
        /\ nDecorations' = nDecorations + 1
        /\ functions' = r.functions
        /\ rOp' = [op |-> "profile", func |-> f, raised |-> r.raised]
        /\ firstDecorated' = FirstDecorated(firstDecorated, f, r.raised)
        /\ UNCHANGED nonRegVars

\* @decko.slower_than(ms) applied to f: self.add_decorator_rule(self.slower_than, func)
DeckoSlowerThan(f) ==
    LET r == AddDecoratorRule(functions, SlowerThanName, f)
    IN  /\ nDecorations < MaxDecorations
        /\ nDecorations' = nDecorations + 1
        /\ functions' = r.functions
        /\ rOp' = [op |-> "slower_than", func |-> f, raised |-> r.raised]
        /\ firstDecorated' = FirstDecorated(firstDecorated, f, r.raised)
        /\ UNCHANGED nonRegVars

\* @decko.execute_if(predicate) applied to f: self.add_decorator_rule(self.execute_if, func)
DeckoExecuteIf(f) ==
    LET r == AddDecoratorRule(functions, ExecuteIfName, f)
    IN  /\ nDecorations < MaxDecorations
        /\ nDecorations' = nDecorations + 1
        /\ functions' = r.functions
        /\ rOp' = [op |-> "execute_if", func |-> f, raised |-> r.raised]
        /\ firstDecorated' = FirstDecorated(firstDecorated, f, r.raised)
        /\ UNCHANGED nonRegVars

\* @decko.run_before(functions) applied to f: self._decorate(self.run_before, fn)
DeckoRunBefore(f) ==
    LET r == AddDecoratorRule(functions, RunBeforeName, f)
    IN  /\ nDecorations < MaxDecorations
        /\ nDecorations' = nDecorations + 1
        /\ functions' = r.functions
        /\ rOp' = [op |-> "run_before", func |-> f, raised |-> r.raised]
        /\ firstDecorated' = FirstDecorated(firstDecorated, f, r.raised)
        /\ UNCHANGED nonRegVars

RegistryNext ==
    \E f \in FuncNames :
        \/ DeckoPure(f)
        \/ DeckoProfile(f)
        \/ DeckoSlowerThan(f)
        \/ DeckoExecuteIf(f)
        \/ DeckoRunBefore(f)

(***************************************************************************)
(* Utility decorators: execute_if, truncate, stopwatch, slower_than,       *)
(* try_except                                                              *)
(***************************************************************************)
\* Python values of the calls below
IntV(n) == V("int", n)
BoolV(b) == V("bool", IF b THEN 1 ELSE 0)

\* bool(v) of a number, a bool or None
Bool(v) ==
    CASE v.ty = "NoneType" -> FALSE
      [] v.ty \in {"int", "bool", "float"} -> v.id # 0
      [] OTHER -> TRUE

\* How a call ends: a value returned or an exception raised
Returns(v) == [kind |-> "return", val |-> v]
Raises(e) == [kind |-> "raise", val |-> e]

\* One step of a call: which callable ran and the argument it was given
Event(ev, arg) == [ev |-> ev, arg |-> arg]

\* The predicates a program passes to execute_if, applied to x
Predicates == {"greater_than", "identity", "none", "raises"}
ArgValues == {IntV(n) : n \in 0..MaxArg}
Threshold == 1

Predicate(p, x) ==
    CASE p = "greater_than" -> Returns(BoolV(x.id > Threshold))
      [] p = "identity" -> Returns(x)
      [] p = "none" -> Returns(NoneVal)
      [] p = "raises" -> Raises(V("ValueError", 1))

\* The functions a program decorates, applied to x
Functions == {"identity", "none", "raises"}

Function(f, x) ==
    CASE f = "identity" -> Returns(x)
      [] f = "none" -> Returns(NoneVal)
      [] f = "raises" -> Raises(V("ValueError", 2))

\* What a truncate-decorated function returns: a list, a tuple or a string
\* of the given items, or a number, which cannot be sliced.
Output(kind, items) == [kind |-> kind, items |-> items]
Sliceable == {"list", "tuple", "str"}
OutputKinds == Sliceable \cup {"int"}
Items == {1, 2}
Outputs ==
    {Output(k, it) : k \in Sliceable, it \in SeqsUpTo(Items, MaxOutLen)}
        \cup {Output("int", <<>>)}
Limits == -1..MaxLimit

Min(a, b) == IF a < b THEN a ELSE b
Max(a, b) == IF a > b THEN a ELSE b

\* output[:limit] of a list, tuple or string: the same kind, the items
\* before index limit, a negative limit counting from the end
Slice(output, limit) ==
    LET n == Len(output.items)
        stop == IF limit >= 0 THEN Min(n, limit) ELSE Max(0, n + limit)
    IN  Output(output.kind, SubSeq(output.items, 1, stop))

\* A plausible slip: the slice keeps one item too many.
TruncateOffByOne(output, limit) ==
    IF output.kind \in Sliceable
    THEN [raised |-> "none", result |-> Slice(output, limit + 1)]
    ELSE [raised |-> "TypeError", result |-> output]

\* The body of truncate, output being what the decorated function returned:
\*     try: return output[:limit]
\*     except Exception: raise TypeError(...)
Truncate(output, limit) ==
    IF output.kind \in Sliceable
    THEN [raised |-> "none", result |-> Slice(output, limit)]
    ELSE [raised |-> "TypeError", result |-> output]

TruncateInit ==
    tcall = [limit |-> 0, output |-> Output("list", <<>>), raised |-> "none",
             result |-> Output("list", <<>>), ran |-> FALSE]

\* The callbacks a program passes to stopwatch and slower_than; "default" is
\* the callback slower_than defines when it is given none.
Callbacks == {"record", "raises"}
SlowerThanCallbacks == Callbacks \cup {"default"}

Callback(cb, arg) ==
    CASE cb = "record" -> Returns(arg)
      [] cb = "raises" -> Raises(V("ValueError", 3))
      [] cb = "default" -> Raises(V("TooSlowError", 1))

\* process_time() differences: the time a call is measured to take
ElapsedTimes == 0..MaxElapsed
FloatV(n) == V("float", n)

\* The inputs of a call
In(f, p, x, cb, elapsed, time_ms) ==
    [f |-> f, p |-> p, x |-> x, cb |-> cb, elapsed |-> elapsed, time_ms |-> time_ms]

UtilInit ==
    /\ ucall = [dec |-> "none", events |-> <<>>, out |-> Returns(NoneVal)]
    /\ uin = In("none", "none", NoneVal, "none", 0, 0)
    /\ nUtilCalls = 0
    /\ sw = [callbacks |-> 0, completed |-> 0, cbRaised |-> 0]

\* A plausible slip: the predicate's result is compared with None instead of
\* being tested for truth.
ExecuteIfNotNone(f, p, x) ==
    LET fire_event == Predicate(p, x)
        e1 == <<Event("predicate", x)>>
    IN  IF fire_event.kind = "raise"
        THEN [events |-> e1, out |-> fire_event]
        ELSE IF fire_event.val # NoneVal
             THEN [events |-> Append(e1, Event("function", x)), out |-> Function(f, x)]
             ELSE [events |-> e1, out |-> Returns(NoneVal)]

\* The body of execute_if:
\*     fire_event = predicate(*args, **kwargs)
\*     if fire_event: return decorated_function(*args, **kwargs)
ExecuteIf(f, p, x) ==
    LET fire_event == Predicate(p, x)
        e1 == <<Event("predicate", x)>>
    IN  IF fire_event.kind = "raise"
        THEN [events |-> e1, out |-> fire_event]
        ELSE IF Bool(fire_event.val)
             THEN [events |-> Append(e1, Event("function", x)), out |-> Function(f, x)]
             ELSE [events |-> e1, out |-> Returns(NoneVal)]

\* A call run(x) of a function decorated with @execute_if(predicate)
ExecuteIfCall(f, p, x) ==
    LET r == ExecuteIf(f, p, x)
    IN  /\ ucall' = [dec |-> "execute_if", events |-> r.events, out |-> r.out]
        /\ uin' = In(f, p, x, "none", 0, 0)
        /\ UNCHANGED <<nUtilCalls, sw>>
        /\ UNCHANGED nonUtilVars

\* A call of a function decorated with @truncate(limit)
TruncateCall(output, limit) ==
    LET r == Truncate(output, limit)
    IN  /\ tcall' = [limit |-> limit, output |-> output, raised |-> r.raised,
                     result |-> r.result, ran |-> TRUE]
        /\ UNCHANGED nonTruncVars

TruncateNext ==
    \E output \in Outputs, limit \in Limits : TruncateCall(output, limit)

\* A plausible slip: the callback runs before the function is timed.
StopwatchCallbackFirst(f, x, cb, elapsed) ==
    LET c == Callback(cb, FloatV(elapsed))
        output == Function(f, x)
        ev == <<Event("callback", FloatV(elapsed)), Event("function", x)>>
    IN  IF c.kind = "raise" THEN [events |-> SubSeq(ev, 1, 1), out |-> c]
        ELSE [events |-> ev, out |-> output]

\* The body of stopwatch:
\*     output = decorated_function(*args, **kwargs)
\*     time_elapsed = process_time() - start_time
\*     callback(time_elapsed)
\*     return output
Stopwatch(f, x, cb, elapsed) ==
    LET output == Function(f, x)
        e1 == <<Event("function", x)>>
    IN  IF output.kind = "raise"
        THEN [events |-> e1, out |-> output]
        ELSE LET c == Callback(cb, FloatV(elapsed))
                 e2 == Append(e1, Event("callback", FloatV(elapsed)))
             IN  IF c.kind = "raise"
                 THEN [events |-> e2, out |-> c]
                 ELSE [events |-> e2, out |-> output]

\* A call of a function decorated with @stopwatch(callback)
StopwatchCall(f, x, cb, elapsed) ==
    LET r == Stopwatch(f, x, cb, elapsed)
        ran == \E i \in 1..Len(r.events) : r.events[i].ev = "callback"
    IN  /\ nUtilCalls < MaxUtilCalls
        /\ nUtilCalls' = nUtilCalls + 1
        /\ ucall' = [dec |-> "stopwatch", events |-> r.events, out |-> r.out]
        /\ uin' = In(f, "none", x, cb, elapsed, 0)
        /\ sw' = [callbacks |-> sw.callbacks + (IF ran THEN 1 ELSE 0),
                  completed |-> sw.completed + (IF r.out.kind = "return" THEN 1 ELSE 0),
                  cbRaised |-> sw.cbRaised + (IF ran /\ r.out.kind = "raise" THEN 1 ELSE 0)]
        /\ UNCHANGED nonUtilVars

\* returned_func of function_decorators.slower_than:
\*     output = func(*args, **kwargs)
\*     elapsed = (process_time() * 1000) - start
\*     if elapsed > time_ms: callback(elapsed)
\*     return output
SlowerThan(f, x, time_ms, cb, elapsed) ==
    LET output == Function(f, x)
        e1 == <<Event("function", x)>>
    IN  IF output.kind = "raise"
        THEN [events |-> e1, out |-> output]
        ELSE IF elapsed > time_ms
             THEN LET c == Callback(cb, FloatV(elapsed))
                      e2 == Append(e1, Event("callback", FloatV(elapsed)))
                  IN  IF c.kind = "raise"
                      THEN [events |-> e2, out |-> c]
                      ELSE [events |-> e2, out |-> output]
             ELSE [events |-> e1, out |-> output]

\* inner of Decko.slower_than, with callback = kw['callback']:
\*     output = func(*args, **kwargs)
\*     elapsed = (process_time() * 1000) - start
\*     if elapsed > time_ms:
\*         if callback: callback(time_ms)
\*     return output
DeckoSlowerThanInner(f, x, time_ms, cb, elapsed) ==
    LET output == Function(f, x)
        e1 == <<Event("function", x)>>
    IN  IF output.kind = "raise"
        THEN [events |-> e1, out |-> output]
        ELSE IF elapsed > time_ms
             THEN LET c == Callback(cb, FloatV(time_ms))
                      e2 == Append(e1, Event("callback", FloatV(time_ms)))
                  IN  IF c.kind = "raise"
                      THEN [events |-> e2, out |-> c]
                      ELSE [events |-> e2, out |-> output]
             ELSE [events |-> e1, out |-> output]

\* A call of a function decorated with @slower_than(time_ms, callback)
SlowerThanCall(f, x, time_ms, cb, elapsed) ==
    LET r == SlowerThan(f, x, time_ms, cb, elapsed)
    IN  /\ ucall' = [dec |-> "slower_than", events |-> r.events, out |-> r.out]
        /\ uin' = In(f, "none", x, cb, elapsed, time_ms)
        /\ UNCHANGED <<nUtilCalls, sw>>
        /\ UNCHANGED nonUtilVars

\* A call of a function decorated with @decko.slower_than(time_ms, callback=cb)
DeckoSlowerThanCall(f, x, time_ms, cb, elapsed) ==
    LET r == DeckoSlowerThanInner(f, x, time_ms, cb, elapsed)
    IN  /\ ucall' = [dec |-> "Decko.slower_than", events |-> r.events, out |-> r.out]
        /\ uin' = In(f, "none", x, cb, elapsed, time_ms)
        /\ UNCHANGED <<nUtilCalls, sw>>
        /\ UNCHANGED nonUtilVars

\* Exception classes and Python's subclass relation between them
ExcTypes == {"ValueError", "KeyError", "LookupError"}

IsSubclass(a, b) == a = b \/ (a = "KeyError" /\ b = "LookupError")

\* The functions a program decorates with try_except: one that returns its
\* argument and one per exception class that raises it
TryFunctions == {"identity"} \cup ExcTypes

TryFunction(f, x) == IF f = "identity" THEN Returns(x) ELSE Raises(V(f, 1))

\* The keyword template raise_error=(False, bool) of try_except and the
\* ways a program supplies it
RaiseErrorTmpl == TupleTmpl("raise_error", BoolV(FALSE), {"bool"})
RaiseErrorKwargs == [{"raise_error"} -> {NoVal, BoolV(TRUE), BoolV(FALSE)}]

TryInit ==
    xcall = [ran |-> FALSE, f |-> "identity", x |-> NoneVal, errors |-> {},
             raise_error |-> NoVal, cb |-> "record",
             events |-> <<>>, out |-> Returns(NoneVal)]

\* A plausible slip: the exception is swallowed whatever raise_error says.
TryExceptSwallows(f, x, errors_to_catch, error_callback, raise_error) ==
    LET r == TryFunction(f, x)
        e1 == <<Event("function", x)>>
    IN  IF r.kind = "return" THEN [events |-> e1, out |-> r]
        ELSE IF \E e \in errors_to_catch : IsSubclass(r.val.ty, e)
             THEN LET c == Callback(error_callback, r.val)
                      e2 == Append(e1, Event("callback", r.val))
                  IN  IF c.kind = "raise" THEN [events |-> e2, out |-> c]
                      ELSE [events |-> e2, out |-> Returns(NoneVal)]
             ELSE [events |-> e1, out |-> r]

\* The body of try_except:
\*     try: return decorated_function(*args, **kwargs)
\*     except errors_to_catch as error:
\*         error_callback(error, tb)
\*         if raise_error: raise
TryExcept(f, x, errors_to_catch, error_callback, raise_error) ==
    LET r == TryFunction(f, x)
        e1 == <<Event("function", x)>>
    IN  IF r.kind = "return" THEN [events |-> e1, out |-> r]
        ELSE IF \E e \in errors_to_catch : IsSubclass(r.val.ty, e)
             THEN LET c == Callback(error_callback, r.val)
                      e2 == Append(e1, Event("callback", r.val))
                  IN  IF c.kind = "raise" THEN [events |-> e2, out |-> c]
                      ELSE IF Bool(raise_error) THEN [events |-> e2, out |-> r]
                      ELSE [events |-> e2, out |-> Returns(NoneVal)]
             ELSE [events |-> e1, out |-> r]

\* A call of a function decorated with
\* @try_except(errors_to_catch, error_callback[, raise_error=...]); the body
\* receives for raise_error what _handle_decorator_kwargs appends.
TryExceptCall(f, x, errors_to_catch, error_callback, kw) ==
    LET r == TryExcept(f, x, errors_to_catch, error_callback,
                       KwValue(RaiseErrorTmpl, kw))
    IN  /\ xcall' = [ran |-> TRUE, f |-> f, x |-> x, errors |-> errors_to_catch,
                     raise_error |-> kw["raise_error"], cb |-> error_callback,
                     events |-> r.events, out |-> r.out]
        /\ UNCHANGED nonTryVars

TryNext ==
    \E f \in TryFunctions, x \in ArgValues, errors_to_catch \in SUBSET ExcTypes,
       error_callback \in Callbacks, kw \in RaiseErrorKwargs :
        TryExceptCall(f, x, errors_to_catch, error_callback, kw)

(***************************************************************************)
(* Decko.debug                                                             *)
(***************************************************************************)
\* The values a program passes as debug: True, False, 1, 0, "False", None
DebugValues == {BoolV(TRUE), BoolV(FALSE), IntV(1), IntV(0), Str1, NoneVal}

DebugInit ==
    /\ config = [debug |-> NoVal]
    /\ dbgOp = [op |-> "none", value |-> NoVal, raised |-> "none"]
    /\ dbgHist = [ctor |-> NoVal, lastBool |-> NoVal]
    /\ nSets = 0

\* Decko(module_name, debug=debug): get_new_configs stores debug as given
DeckoConstruct(debug) ==
    /\ config.debug = NoVal
    /\ config' = [debug |-> debug]
    /\ dbgOp' = [op |-> "construct", value |-> debug, raised |-> "none"]
    /\ dbgHist' = [ctor |-> debug, lastBool |-> NoVal]
    /\ UNCHANGED nSets
    /\ UNCHANGED nonDebugVars

\* A plausible slip: isinstance(new_mode, int) in place of the exact type
\* test, which lets 0 and 1 through.
DebugSetterIsInstance(cfg, new_mode) ==
    IF new_mode.ty \notin {"bool", "int"}
    THEN [raised |-> "TypeError", config |-> cfg]
    ELSE [raised |-> "none", config |-> [cfg EXCEPT !.debug = new_mode]]

\* debug.setter:
\*     if type(new_mode) != bool: raise TypeError(...)
\*     self.config['debug'] = new_mode
DebugSetter(cfg, new_mode) ==
    IF new_mode.ty # "bool"
    THEN [raised |-> "TypeError", config |-> cfg]
    ELSE [raised |-> "none", config |-> [cfg EXCEPT !.debug = new_mode]]

\* decko.debug = new_mode
SetDebug(new_mode) ==
    LET r == DebugSetter(config, new_mode)
    IN  /\ config.debug # NoVal
        /\ nSets < MaxSets
        /\ nSets' = nSets + 1
        /\ config' = r.config
        /\ dbgOp' = [op |-> "set", value |-> new_mode, raised |-> r.raised]
        /\ dbgHist' = IF new_mode.ty = "bool"
                      THEN [dbgHist EXCEPT !.lastBool = new_mode] ELSE dbgHist
        /\ UNCHANGED nonDebugVars

DebugNext ==
    \/ \E debug \in DebugValues : DeckoConstruct(debug)
    \/ \E new_mode \in DebugValues : SetDebug(new_mode)

(***************************************************************************)
(* instance_data: observable instance attributes                           *)
(***************************************************************************)
\* The class of the tests: __init__(self, a, b) stores self.a and self.b
DataAttrs == <<"a", "b">>
DataAttrSet == {"a", "b"}

\* accessor = f"_{cls.__name__}__{prop}"
Accessor(prop) == IF prop = "a" THEN "_ClassSample__a" ELSE "_ClassSample__b"
DataKeys == DataAttrSet \cup {Accessor(prop) : prop \in DataAttrSet}

\* The setter of the tests raises ValueError for a value above its limit
SetterLimit == 1
Setter(value) == IF value > SetterLimit THEN "ValueError" ELSE "none"

\* filter_predicate: every attribute (the default) or only a
Filters == {"all", "only_a"}
FilterPredicate(filter, prop) == filter = "all" \/ prop = "a"

EmptyDict == [k \in DataKeys |-> Absent]
NoDataOp == [op |-> "none", prop |-> "none", value |-> Absent, raised |-> "none",
             setterRuns |-> 0, seen |-> Absent, before |-> EmptyDict]

DataInit ==
    /\ idCls = [decorated |-> FALSE, filter |-> "all", props |-> {}]
    /\ idObj = [exists |-> FALSE, dict |-> EmptyDict]
    /\ idOp = NoDataOp
    /\ nAssigns = 0

\* A plausible slip: the value is stored before the setter is asked.
SetterExecutorStoresFirst(dict, prop, value) ==
    [raised |-> Setter(value),
     seen |-> value,
     dict |-> [dict EXCEPT ![Accessor(prop)] = value]]

\* create_setter(setter).executor(self, value):
\*     func(self, value); setattr(self, accessor, value)
\* seen is what the attribute holds while the setter runs.
SetterExecutor(dict, prop, value) ==
    [raised |-> Setter(value),
     seen |-> dict[Accessor(prop)],
     dict |-> IF Setter(value) = "none"
              THEN [dict EXCEPT ![Accessor(prop)] = value] ELSE dict]

\* create_getter(getter).executor(self) with the default getter:
\* getattr(self, accessor), AttributeError when it is missing
GetterExecutor(dict, prop) ==
    IF dict[Accessor(prop)] = Absent
    THEN [raised |-> "AttributeError", value |-> Absent]
    ELSE [raised |-> "none", value |-> dict[Accessor(prop)]]

\* self.<prop> = value: through the property once the class has it
SetAttr(props, dict, prop, value) ==
    IF prop \in props THEN SetterExecutor(dict, prop, value)
    ELSE [raised |-> "none", seen |-> dict[prop], dict |-> [dict EXCEPT ![prop] = value]]

\* self.<prop>
GetAttr(props, dict, prop) ==
    IF prop \in props THEN GetterExecutor(dict, prop)
    ELSE IF dict[prop] = Absent THEN [raised |-> "AttributeError", value |-> Absent]
    ELSE [raised |-> "none", value |-> dict[prop]]

\* super().__init__(a, b): self.a = a; self.b = b
SuperInit(props, a, b) ==
    LET r1 == SetAttr(props, EmptyDict, "a", a)
    IN  IF r1.raised # "none" THEN [raised |-> r1.raised, dict |-> r1.dict, setterRuns |-> 1]
        ELSE LET r2 == SetAttr(props, r1.dict, "b", b)
             IN  [raised |-> r2.raised, dict |-> r2.dict,
                  setterRuns |-> IF "a" \in props THEN 2 ELSE 0]

\* The loop over new_attrs in ObservableClass.__init__ for one attribute:
\*     setattr(self, new_prop, getattr(self, old_prop)); delattr(self, old_prop)
\* delattr fails on a property, which has no deleter.
MoveAttr(props, dict, prop) ==
    LET g == GetAttr(props, dict, prop)
    IN  IF g.raised # "none" THEN [raised |-> g.raised, dict |-> dict]
        ELSE IF prop \in props
             THEN [raised |-> "AttributeError",
                   dict |-> [dict EXCEPT ![Accessor(prop)] = g.value]]
             ELSE [raised |-> "none",
                   dict |-> [dict EXCEPT ![Accessor(prop)] = g.value, ![prop] = Absent]]

RECURSIVE MoveAttrs(_, _, _, _)
MoveAttrs(i, props, dict, filter) ==
    IF i > Len(DataAttrs) THEN [raised |-> "none", dict |-> dict]
    ELSE IF ~FilterPredicate(filter, DataAttrs[i]) THEN MoveAttrs(i + 1, props, dict, filter)
    ELSE LET r == MoveAttr(props, dict, DataAttrs[i])
         IN  IF r.raised # "none" THEN r ELSE MoveAttrs(i + 1, props, r.dict, filter)

\* @instance_data(filter_predicate=..., setter=setter) applied to the class
DecorateClass(filter) ==
    /\ ~idCls.decorated
    /\ idCls' = [decorated |-> TRUE, filter |-> filter, props |-> {}]
    /\ idOp' = [NoDataOp EXCEPT !.op = "decorate"]
    /\ UNCHANGED <<idObj, nAssigns>>
    /\ UNCHANGED nonDataVars

\* ObservableClass(a, b): super().__init__, the move of the observed
\* attributes to their accessors, then attach_property for every attribute
\* of the template instance. The object is kept when nothing was raised.
ConstructInstance(a, b) ==
    /\ idCls.decorated
    /\ idOp.op # "construct"
    /\ LET r1 == SuperInit(idCls.props, a, b)
           r2 == IF r1.raised # "none" THEN [raised |-> r1.raised, dict |-> r1.dict]
                 ELSE MoveAttrs(1, idCls.props, r1.dict, idCls.filter)
       IN  /\ idObj' = IF r2.raised = "none" THEN [exists |-> TRUE, dict |-> r2.dict]
                       ELSE idObj
           /\ idCls' = IF r2.raised = "none" THEN [idCls EXCEPT !.props = DataAttrSet]
                       ELSE idCls
           /\ idOp' = [NoDataOp EXCEPT !.op = "construct", !.raised = r2.raised,
                                       !.setterRuns = r1.setterRuns]
    /\ UNCHANGED nAssigns
    /\ UNCHANGED nonDataVars

\* instance.<prop> = value
AssignData(prop, value) ==
    /\ idObj.exists
    /\ nAssigns < MaxAssigns
    /\ nAssigns' = nAssigns + 1
    /\ LET r == SetAttr(idCls.props, idObj.dict, prop, value)
       IN  /\ idObj' = [idObj EXCEPT !.dict = r.dict]
           /\ idOp' = [op |-> "assign", prop |-> prop, value |-> value,
                       raised |-> r.raised,
                       setterRuns |-> IF prop \in idCls.props THEN 1 ELSE 0,
                       seen |-> r.seen, before |-> idObj.dict]
    /\ UNCHANGED idCls
    /\ UNCHANGED nonDataVars

DataNext ==
    \/ \E filter \in Filters : DecorateClass(filter)
    \/ \E a, b \in Values : ConstructInstance(a, b)
    \/ \E prop \in DataAttrSet, value \in Values : AssignData(prop, value)

UtilNext ==
    \/ \E f \in Functions, x \in ArgValues, time_ms \in ElapsedTimes,
          cb \in SlowerThanCallbacks, elapsed \in ElapsedTimes :
           SlowerThanCall(f, x, time_ms, cb, elapsed)
    \/ \E f \in Functions, x \in ArgValues, time_ms \in ElapsedTimes,
          cb \in Callbacks, elapsed \in ElapsedTimes :
           DeckoSlowerThanCall(f, x, time_ms, cb, elapsed)
    \/ \E f \in Functions, p \in Predicates, x \in ArgValues : ExecuteIfCall(f, p, x)

StopwatchNext ==
    \E f \in Functions, x \in ArgValues, cb \in Callbacks, elapsed \in ElapsedTimes :
        StopwatchCall(f, x, cb, elapsed)

(***************************************************************************)
(* Module: the event queue                                                 *)
(***************************************************************************)
Msgs == {"m1", "m2"}
DefaultSizeLimit == -1      \* self.event_queue_size_limit = -1  ("Unlimited size")
SizeLimits == DefaultSizeLimit..MaxSizeLimit

\* Module.__init__: an empty deque and the default limit
ModuleInit ==
    /\ event_queue = <<>>
    /\ event_queue_size_limit = DefaultSizeLimit
    /\ eqOp = [op |-> "none", msg |-> "", raised |-> "none", before |-> <<>>,
               limit |-> DefaultSizeLimit]

\* while remove_up_to != 0: self.event_queue.popleft()
\* remove_up_to is never changed inside the loop; popleft() on an empty deque
\* raises IndexError.
RECURSIVE PopLeftLoop(_, _)
PopLeftLoop(queue, remove_up_to) ==
    IF remove_up_to = 0 THEN [raised |-> "none", queue |-> queue]
    ELSE IF Len(queue) = 0 THEN [raised |-> "IndexError", queue |-> queue]
    ELSE PopLeftLoop(Tail(queue), remove_up_to)

\* Module._add_to_event_queue(msg)
AddToEventQueue(queue, size_limit, msg) ==
    LET current_size == Len(queue)
        trimmed == IF current_size > size_limit
                   THEN PopLeftLoop(queue, size_limit - current_size)
                   ELSE [raised |-> "none", queue |-> queue]
    IN  IF trimmed.raised # "none" THEN trimmed
        ELSE [raised |-> "none", queue |-> Append(trimmed.queue, msg)]

\* module._add_to_event_queue(msg)
AddToEventQueueCall(msg) ==
    /\ LET r == AddToEventQueue(event_queue, event_queue_size_limit, msg)
       IN  /\ event_queue' = r.queue
           /\ eqOp' = [op |-> "add", msg |-> msg, raised |-> r.raised,
                       before |-> event_queue, limit |-> event_queue_size_limit]
    /\ UNCHANGED event_queue_size_limit
    /\ UNCHANGED nonModVars

\* module.event_queue_size_limit = n  (the attribute is public)
SetSizeLimit(n) ==
    /\ n # event_queue_size_limit
    /\ event_queue_size_limit' = n
    /\ eqOp' = [op |-> "set_limit", msg |-> "", raised |-> "none",
                before |-> event_queue, limit |-> n]
    /\ UNCHANGED event_queue
    /\ UNCHANGED nonModVars

ModuleNext ==
    \/ \E msg \in Msgs : AddToEventQueueCall(msg)
    \/ \E n \in SizeLimits : SetSizeLimit(n)

(***************************************************************************)
(* Decko.run_before, Pojang.run_before and fill_default_kwargs             *)
(***************************************************************************)
\* The keyword names that occur: the parameters of the decorated function
\* def f(x, y=2) and of Decko.run_before(self, functions, **kw)
KwKeys == {"x", "y", "functions", "kw"}
EmptyV == V("_empty", 0)               \* inspect.Parameter.empty
NoKwargs == [k \in KwKeys |-> NoVal]
RunBeforeWrapper == V("function", 3)   \* the closure Decko.run_before returns

\* inspect.signature(fn).parameters as (name, default) pairs, in order.
\* "run_before" stands for the closure wrapped of Decko._decorate, whose
\* signature is, through wraps, that of the bound method self.run_before.
Signature(fn) ==
    IF fn = "f"
    THEN <<[name |-> "x", default |-> EmptyV], [name |-> "y", default |-> Int2]>>
    ELSE <<[name |-> "functions", default |-> EmptyV], [name |-> "kw", default |-> EmptyV]>>

\* fill_default_kwargs(fn, args, kwargs): kwargs[k] = v.default for every
\* parameter whose index is >= len(args); the result is kwargs afterwards.
FillDefaultKwargs(parameters, args, kwargs) ==
    [k \in KwKeys |->
        IF \E i \in 1..Len(parameters) : parameters[i].name = k /\ i - 1 >= Len(args)
        THEN parameters[CHOOSE i \in 1..Len(parameters) : parameters[i].name = k].default
        ELSE kwargs[k]]

\* One call made during a call of the decorated function
RbEvent(fn, args, kwargs) == [fn |-> fn, args |-> args, kw |-> kwargs]

\* preprocess(functions, *args, **kwargs): f(*args, **kwargs) for each f
Preprocess(funcs, args, kwargs) ==
    [i \in 1..Len(funcs) |-> RbEvent(funcs[i], args, kwargs)]

\* fn(*args, **kwargs) for the two callables inner can hold as fn:
\* "f", def f(x, y=2): return x + y, and "run_before", the closure wrapped of
\* _decorate, which calls self.run_before(*args, **kwargs).
CallTarget(fn, args, kwargs) ==
    IF fn = "f"
    THEN IF /\ Len(args) <= 2
            /\ kwargs["functions"] = NoVal /\ kwargs["kw"] = NoVal
            /\ (Len(args) >= 1) # (kwargs["x"] # NoVal)
            /\ ~(Len(args) = 2 /\ kwargs["y"] # NoVal)
         THEN LET x == IF Len(args) >= 1 THEN args[1] ELSE kwargs["x"]
                  y == IF Len(args) = 2 THEN args[2]
                       ELSE IF kwargs["y"] # NoVal THEN kwargs["y"] ELSE Int2
              IN  [events |-> <<RbEvent("f", args, kwargs)>>,
                   out |-> IF x.ty = "int" /\ y.ty = "int"
                           THEN Returns(IntV(x.id + y.id)) ELSE Raises("TypeError")]
         ELSE [events |-> <<>>, out |-> Raises("TypeError")]
    ELSE IF Len(args) <= 1 /\ ((Len(args) = 1) # (kwargs["functions"] # NoVal))
         THEN [events |-> <<>>, out |-> Returns(RunBeforeWrapper)]
         ELSE [events |-> <<>>, out |-> Raises("TypeError")]

\* Decko._decorate(decorator_func, func) returns the closure wrapped, which
\* calls decorator_func; Decko.run_before passes self.run_before for it.
Decorate(decorator_func, func) == decorator_func

\* Decko.run_before(functions)(fn): inner(*args, **kwargs)
DeckoRunBeforeInner(funcs, args, kwargs) ==
    LET fn == Decorate("run_before", "f")
        filled == FillDefaultKwargs(Signature(fn), args, kwargs)
        r == CallTarget(fn, args, filled)
    IN  [events |-> Preprocess(funcs, args, filled) \o r.events, out |-> r.out]

\* Pojang.run_before(functions)(fn): inner(*args, **kwargs)
PojangRunBeforeInner(funcs, args, kwargs) ==
    LET r == CallTarget("f", args, kwargs)
    IN  [events |-> Preprocess(funcs, args, kwargs) \o r.events, out |-> r.out]

\* The functions given to run_before: def b1(*a, **k), def b2(*a, **k)
BeforeLists == {<<>>, <<"b1">>, <<"b1", "b2">>, <<"b2", "b1">>}
PosArgs == SeqsUpTo({Int1, Int2}, MaxPos)
\* Keyword arguments a caller passes for x and y
CallerKwargs == {kw \in [KwKeys -> {NoVal, Int1, Int2}] : kw["functions"] = NoVal /\ kw["kw"] = NoVal}

RunBeforeInit ==
    /\ rbCall = [variant |-> "none", funcs |-> <<>>, args |-> <<>>, kw |-> NoKwargs,
                 events |-> <<>>, out |-> Returns(NoneVal)]
    /\ fdk = [fn |-> "none", args |-> <<>>, before |-> NoKwargs, after |-> NoKwargs]

\* A call f(*args, **kwargs), valid for def f(x, y=2), of the function
\* decorated with Decko.run_before(funcs)
DeckoRunBeforeCall(funcs, args, kwargs) ==
    /\ CallTarget("f", args, kwargs).events # <<>>
    /\ LET r == DeckoRunBeforeInner(funcs, args, kwargs)
       IN  rbCall' = [variant |-> "decko", funcs |-> funcs, args |-> args, kw |-> kwargs,
                      events |-> r.events, out |-> r.out]
    /\ UNCHANGED fdk
    /\ UNCHANGED nonRbVars

\* The same call of the function decorated with Pojang.run_before(funcs)
PojangRunBeforeCall(funcs, args, kwargs) ==
    /\ CallTarget("f", args, kwargs).events # <<>>
    /\ LET r == PojangRunBeforeInner(funcs, args, kwargs)
       IN  rbCall' = [variant |-> "pojang", funcs |-> funcs, args |-> args, kw |-> kwargs,
                      events |-> r.events, out |-> r.out]
    /\ UNCHANGED fdk
    /\ UNCHANGED nonRbVars

\* fill_default_kwargs(fn, args, kwargs) on its own
FillDefaultKwargsCall(fn, args, kwargs) ==
    /\ fdk' = [fn |-> fn, args |-> args, before |-> kwargs,
               after |-> FillDefaultKwargs(Signature(fn), args, kwargs)]
    /\ UNCHANGED rbCall
    /\ UNCHANGED nonRbVars

RunBeforeNext ==
    \/ \E funcs \in BeforeLists, args \in PosArgs, kwargs \in CallerKwargs :
          DeckoRunBeforeCall(funcs, args, kwargs)
    \/ \E funcs \in BeforeLists, args \in PosArgs, kwargs \in CallerKwargs :
          PojangRunBeforeCall(funcs, args, kwargs)

FillDefaultKwargsNext ==
    \E fn \in {"f", "run_before"}, args \in PosArgs, kwargs \in CallerKwargs :
        FillDefaultKwargsCall(fn, args, kwargs)

(***************************************************************************)
(* validate_inputs                                                         *)
(***************************************************************************)
\* The validation functions a program passes and the inputs of a call
Validators == {"positive", "negative"}
InputValues == {-1, 1}
IsValid(is_valid, x) == IF is_valid = "positive" THEN x > 0 ELSE x < 0

\* validate_inputs(decorated_function, validation_functions, *args, **kwargs)
\* kwvals are the values of kwargs in order.  A non-empty kwargs.values() is
\* truthy and args + kwargs.values() raises TypeError (tuple + dict_values);
\* i stays 0 in the loop, so every is_valid is applied to inputs[0], which
\* raises IndexError when there is no input.
ValidateInputs(validation_functions, args, kwvals) ==
    LET inputs == args
        call == [raised |-> "none", called |-> TRUE, args |-> args, kw |-> kwvals]
        raise(e) == [raised |-> e, called |-> FALSE, args |-> <<>>, kw |-> <<>>]
    IN  IF Len(kwvals) > 0 THEN raise("TypeError")
        ELSE IF Len(validation_functions) = 0 THEN call
        ELSE IF Len(inputs) = 0 THEN raise("IndexError")
        ELSE IF \E k \in 1..Len(validation_functions) :
                    ~IsValid(validation_functions[k], inputs[1])
             THEN raise("ValueError")
             ELSE call

ValidateInit ==
    vcall = [op |-> "none", vfs |-> <<>>, args |-> <<>>, kw |-> <<>>,
             res |-> [raised |-> "none", called |-> FALSE, args |-> <<>>, kw |-> <<>>]]

\* A call f(*args, **kwargs) of a function decorated with
\* validate_inputs(validation_functions)
ValidateInputsCall(validation_functions, args, kwvals) ==
    /\ vcall' = [op |-> "call", vfs |-> validation_functions, args |-> args, kw |-> kwvals,
                 res |-> ValidateInputs(validation_functions, args, kwvals)]
    /\ UNCHANGED nonValVars

ValidateNext ==
    \E vfs \in SeqsUpTo(Validators, MaxPos), args \in SeqsUpTo(InputValues, MaxPos),
       kwvals \in SeqsUpTo(InputValues, MaxKw) :
        ValidateInputsCall(vfs, args, kwvals)

(***************************************************************************)
(* logger_factory: the handlers of the named logger                        *)
(***************************************************************************)
\* A handler object: its class and the call of logger_factory that made it
Handler(kind, call) == [kind |-> kind, call |-> call]

\* handlers without its element at position i  (list.remove of that element)
RemoveAt(handlers, i) ==
    [j \in 1..Len(handlers) - 1 |-> IF j < i THEN handlers[j] ELSE handlers[j + 1]]

\* for handler in logger.handlers: logger.removeHandler(handler)
\* The loop walks the very list removeHandler shrinks: after the element at
\* the current index is removed the index still advances by one.
RECURSIVE RemoveOldHandlers(_, _)
RemoveOldHandlers(handlers, index) ==
    IF index > Len(handlers) THEN handlers
    ELSE RemoveOldHandlers(RemoveAt(handlers, index), index + 1)

\* The handlers one call adds: a FileHandler when file_name is given, then a
\* StreamHandler when log_also_to_console is true (decko/helper/util.py has
\* no console handler: log_also_to_console = FALSE).
NewHandlers(call, has_file_name, log_also_to_console) ==
    (IF has_file_name THEN <<Handler("FileHandler", call)>> ELSE <<>>)
        \o (IF log_also_to_console THEN <<Handler("StreamHandler", call)>> ELSE <<>>)

LoggerInit ==
    /\ logHandlers = <<>>
    /\ logOp = [op |-> "none", before |-> <<>>, added |-> <<>>]
    /\ nLogCalls = 0

\* logger_factory(logger_name, level, file_name, log_also_to_console)
LoggerFactoryCall(has_file_name, log_also_to_console) ==
    /\ nLogCalls < MaxLogCalls
    /\ nLogCalls' = nLogCalls + 1
    /\ LET added == NewHandlers(nLogCalls + 1, has_file_name, log_also_to_console)
       IN  /\ logHandlers' = RemoveOldHandlers(logHandlers, 1) \o added
           /\ logOp' = [op |-> "call", before |-> logHandlers, added |-> added]
    /\ UNCHANGED nonLogVars

LoggerNext ==
    \E has_file_name, log_also_to_console \in BOOLEAN :
        LoggerFactoryCall(has_file_name, log_also_to_console)

(***************************************************************************)
(* TimeComputer: a context manager that accumulates elapsed times          *)
(***************************************************************************)
TimeComputerInit ==
    /\ tc = [constructed |-> FALSE, log_interval |-> 1, run_count |-> 0,
             accumulated_time |-> <<>>, entered |-> FALSE]
    /\ tcLogs = <<>>
    /\ tcHist = [initial |-> 0, exits |-> 0]

\* TimeComputer(accumulated_time, log_interval, log_callback) with a list:
\* _init selects _append_to_list, run_count = 0
TimeComputerConstruct(time_list, log_interval) ==
    /\ ~tc.constructed
    /\ tc' = [constructed |-> TRUE, log_interval |-> log_interval, run_count |-> 0,
              accumulated_time |-> time_list, entered |-> FALSE]
    /\ tcHist' = [initial |-> Len(time_list), exits |-> 0]
    /\ UNCHANGED tcLogs
    /\ UNCHANGED nonTcVars

\* __enter__: self.run_count += 1; self.start_time = time.time()
TimeComputerEnter ==
    /\ tc.constructed /\ ~tc.entered
    /\ tcHist.exits < MaxBlocks
    /\ tc' = [tc EXCEPT !.run_count = @ + 1, !.entered = TRUE]
    /\ UNCHANGED <<tcLogs, tcHist>>
    /\ UNCHANGED nonTcVars

\* A plausible slip: the interval test looks at the count before this run.
TimeComputerExitCountsBefore(time_elapsed) ==
    /\ tc.constructed /\ tc.entered
    /\ LET acc == Append(tc.accumulated_time, time_elapsed)
       IN  /\ tc' = [tc EXCEPT !.accumulated_time = acc, !.entered = FALSE]
           /\ tcLogs' = IF (tc.run_count - 1) % tc.log_interval = 0
                        THEN Append(tcLogs, [len |-> Len(acc), run_count |-> tc.run_count])
                        ELSE tcLogs
    /\ tcHist' = [tcHist EXCEPT !.exits = @ + 1]
    /\ UNCHANGED nonTcVars

\* __exit__, reached when the block ends normally or by an exception:
\* _append_to_list(time_elapsed), then log_callback(self._accumulated_time,
\* self.run_count) when run_count % log_interval == 0
TimeComputerExit(time_elapsed) ==
    /\ tc.constructed /\ tc.entered
    /\ LET acc == Append(tc.accumulated_time, time_elapsed)
       IN  /\ tc' = [tc EXCEPT !.accumulated_time = acc, !.entered = FALSE]
           /\ tcLogs' = IF tc.run_count % tc.log_interval = 0
                        THEN Append(tcLogs, [len |-> Len(acc), run_count |-> tc.run_count])
                        ELSE tcLogs
    /\ tcHist' = [tcHist EXCEPT !.exits = @ + 1]
    /\ UNCHANGED nonTcVars

TimeComputerNext ==
    \/ \E time_list \in SeqsUpTo(0..MaxElapsed, 1), log_interval \in 1..MaxInterval :
          TimeComputerConstruct(time_list, log_interval)
    \/ TimeComputerEnter
    \/ \E time_elapsed \in 0..MaxElapsed : TimeComputerExit(time_elapsed)

RestInit == FreezeInit /\ PureInit /\ DeckInit /\ RegistryInit /\ UtilInit
            /\ TruncateInit /\ TryInit /\ DebugInit /\ DataInit
            /\ ModuleInit /\ RunBeforeInit /\ ValidateInit
            /\ LoggerInit /\ TimeComputerInit

Init == SingletonInit /\ RestInit

\* singleton(thread_safe=False): the metaclass without the lock
InitNotThreadSafe == thread_safe = FALSE /\ SingletonCreated /\ RestInit

NotThreadSafeNext ==
    \E t \in Threads :
        \/ CallConstructor(t)
        \/ Check1(t)
        \/ RunInit(t)
        \/ Store(t)
        \/ Return(t)

SpecSingletonNotThreadSafe == InitNotThreadSafe /\ [][NotThreadSafeNext]_vars

SpecSingleton == Init /\ [][SingletonNext]_vars

\* Fair scheduling of the threads: a thread that can take its next step of
\* Singleton.__call__ (for Acquire: while the lock is free) eventually takes it.
SpecSingletonFair ==
    /\ SpecSingleton
    /\ \A t \in Threads :
          WF_vars(Check1(t) \/ Acquire(t) \/ Check2(t) \/ RunInit(t)
                    \/ Store(t) \/ Release(t) \/ Return(t))

SpecFreeze == Init /\ [][FreezeNext]_vars

SpecDeckoFreeze == Init /\ [][DeckoFreezeNext]_vars

SpecPure == Init /\ [][PureNext]_vars

SpecDeckorator == Init /\ [][DeckNext]_vars

SpecRegistry == Init /\ [][RegistryNext]_vars

SpecUtility == Init /\ [][UtilNext]_vars

SpecStopwatch == Init /\ [][StopwatchNext]_vars

SpecTruncate == Init /\ [][TruncateNext]_vars

SpecTryExcept == Init /\ [][TryNext]_vars

SpecDebug == Init /\ [][DebugNext]_vars

SpecInstanceData == Init /\ [][DataNext]_vars

SpecModule == Init /\ [][ModuleNext]_vars

SpecRunBefore == Init /\ [][RunBeforeNext]_vars

SpecValidate == Init /\ [][ValidateNext]_vars

SpecLogger == Init /\ [][LoggerNext]_vars

SpecTimeComputer == Init /\ [][TimeComputerNext]_vars

SpecFillDefaultKwargs == Init /\ [][FillDefaultKwargsNext]_vars

\* C2: once an instance of a freeze-decorated class is constructed its
\* attribute mapping never changes: every assignment on it (existing
\* attribute, new attribute, or a method) raises ImmutableError and leaves
\* all attributes as they were when construction finished.
C2_FrozenNeverChanges ==
    /\ \A i \in 1..Len(objs) : objs[i].attrs = objs[i].built
    /\ fOp.op = "assign" => fOp.raised = "ImmutableError"

\* Assignments to an existing attribute, to a new attribute and to a method
\* have each been attempted on a constructed instance.
C2_Witness ==
    /\ Len(objs) >= 1
    /\ fOp.op = "assign"
    /\ fOp.name = "new_prop"
    /\ objs[fOp.obj].attrs["a"] # Absent
    /\ objs[fOp.obj].attrs["new_prop"] = Absent

\* C1 (as stated): under every interleaving the wrapped __init__ runs at most
\* once and every constructor call returns the same instance.
C1_InitAtMostOnce ==
    /\ initRuns <= 1
    /\ Cardinality(returned) <= 1

\* C1 (amended): at most one run of the wrapped __init__ returns normally (a
\* further run happens only after a run that raised), and every constructor
\* call that returns returns the same instance, the recorded one.
C1_OneInstance ==
    /\ initRuns - initRaised <= 1
    /\ Cardinality(returned) <= 1
    /\ returned \subseteq {instance}
    /\ 0 \notin returned

\* Two threads have both been inside the constructor, one __init__ run
\* completed, and calls have returned the instance.
C1_Witness ==
    /\ \A t \in Threads : calls[t] >= 1
    /\ initRuns - initRaised = 1
    /\ returned # {}
    /\ \A t \in Threads : pc[t] = "idle"

\* C3: whenever a call of a pure-decorated function leaves an argument
\* (positional, keyword or defaulted) unequal to its value before the call,
\* event_cb is invoked with that argument's name and its before and after
\* values; with no callback given the call raises MutatedReferenceError.
C3_MutationReported ==
    pCall.op = "call" =>
        \A q \in ParamSet :
            LET o == pCall.bound[q]
            IN  heap[o] # pCall.before[o] =>
                    IF pCall.hasCb
                    THEN \E k \in 1..Len(pEvents) :
                            pEvents[k] = [name |-> q, before |-> pCall.before[o],
                                          after |-> heap[o]]
                    ELSE pRaised = "MutatedReferenceError"

(***************************************************************************)
(* Properties of deckorator-built decorators                               *)
(***************************************************************************)
\* The positional arguments the body got after the bound self or cls.
BodyArgsAfterOwner ==
    IF Len(dcall.bodyArgs) > 0 /\ dcall.bodyArgs[1] \in {OwnerObj, FalsyOwner, OwnerCls}
    THEN Tail(dcall.bodyArgs) ELSE dcall.bodyArgs

\* The bare form: @deco applied directly to a callable, no decorator argument.
IsBareUse ==
    /\ Len(app.pos) = 1
    /\ Len(deco.targs) = 0
    /\ Len(deco.tkw) = 0
    /\ IsCallable(app.pos[1])

C5_KeywordValueReceived ==
    (dcall.op = "call" /\ dcall.bodyRan /\ ~app.bare) =>
        LET a == BodyArgsAfterOwner
            base == Len(a) - Len(dcall.args) - Len(deco.tkw)
        IN  \A j \in 1..Len(deco.tkw) :
                a[base + j] = IF app.kw[deco.tkw[j].key] # NoVal
                              THEN app.kw[deco.tkw[j].key]
                              ELSE deco.tkw[j].default

\* C6: each call of a decorated function invokes the body exactly once,
\* passing the decorated function first, then the decorator arguments in
\* declared order (positional, then one per keyword template), then the
\* call's own arguments, and returns exactly what the body returns; after n
\* calls the body has run n times.
C6_BodyOncePerCall ==
    /\ wrap # NoClosure => nBodyRuns = nWrapCalls
    /\ dcall.op = "call" =>
        /\ dcall.bodyRan
        /\ dcall.ret = dcall.bodyRet
        /\ LET a == BodyArgsAfterOwner
               nDeco == IF app.bare THEN 0 ELSE Len(app.pos) + Len(deco.tkw)
               nPre == Len(a) - 1 - nDeco - Len(dcall.args)
           IN  /\ nPre = IF deco.hook = "values" /\ IsCallable(decn.decorated)
                         THEN Len(HookResult(deco).vals) ELSE 0
               /\ a[1] = decn.decorated
               /\ SubSeq(a, Len(a) - Len(dcall.args) + 1, Len(a)) = dcall.args
               /\ ~app.bare =>
                    /\ SubSeq(a, 1 + nPre + 1, 1 + nPre + Len(app.pos)) = app.pos
                    /\ \A j \in 1..Len(deco.tkw) :
                          a[1 + nPre + Len(app.pos) + j]
                            \in {app.kw[deco.tkw[j].key], deco.tkw[j].default} \ {NoVal}

\* A decorator with positional and keyword arguments has been called twice
\* with an argument, the body having run each time.
C6_Witness ==
    /\ dcall.op = "call"
    /\ nWrapCalls = 2
    /\ nBodyRuns = 2
    /\ Len(app.pos) >= 1
    /\ Len(deco.tkw) >= 1
    /\ Len(dcall.args) >= 1

C8_MethodBodyLikeFunction ==
    deco.kind \in {"method", "classmethod", "staticmethod"} =>
        /\ ( /\ app.op = "apply"
             /\ Len(app.pos) = Len(deco.targs)
             /\ \A k \in 1..Len(app.pos) : IsInstance(app.pos[k], deco.targs[k]) )
                => app.out = "pending"
        /\ (dcall.op = "call" /\ IsCallable(decn.decorated)) =>
                /\ dcall.bodyRan
                /\ deco.kind \in {"method", "classmethod"} =>
                        dcall.bodyArgs[1] = app.owner[1]
                /\ dcall.raised = "none"
                /\ dcall.ret = FnResult(decn.decorated, dcall.args)

\* C9: a decorator declared with is_class_decorator=True raises TypeError
\* when applied to anything that is not a class, at decoration time, and its
\* body is never run for that object.
C9_ClassDecoratorRejectsNonClass ==
    deco.isClass =>
        /\ (decn.op = "decorate" /\ ~IsClass(decn.obj)) => decn.out = "TypeError"
        /\ IsClass(decn.decorated) \/ decn.decorated = NoneVal
        /\ wrap # NoClosure => IsClass(wrap.fn)
        /\ (dcall.op = "call" /\ dcall.bodyRan) => IsClass(dcall.bodyArgs[1])

\* A class decorator was applied to a function and refused it.
C9_Witness ==
    /\ deco.isClass
    /\ decn.op = "decorate"
    /\ decn.obj = F1
    /\ decn.out = "TypeError"

\* C10: after any sequence of decorator applications made through one Decko
\* instance (pure, profile, slower_than, execute_if, run_before) the
\* functions registry holds exactly one entry per distinct decorated
\* function, keyed by the function's qualified name, in order of first
\* decoration.
C10_RegistryOneEntryPerFunction ==
    RegistryKeys(functions) = firstDecorated

\* The decorated_with list registered under name, <<>> when there is none.
DecoratedWith(fns, name) ==
    IF \E i \in 1..Len(fns) : fns[i].name = name
    THEN fns[KeyIndex(fns, name)].decorated_with ELSE <<>>

\* get_unique_func_name of the Decko method an application went through
DecoratorNameOf(op) ==
    CASE op = "pure" -> PureName
      [] op = "profile" -> ProfileName
      [] op = "slower_than" -> SlowerThanName
      [] op = "execute_if" -> ExecuteIfName
      [] op = "run_before" -> RunBeforeName

\* C11: no decorated_with list of the registry holds a decorator name twice;
\* applying a decorator to a function already registered with it raises
\* DuplicateDecoratorError and leaves the registry unchanged, and applying a
\* different decorator appends its name after the existing ones.
C11_NoDuplicateDecorator ==
    [][nDecorations' # nDecorations =>
         LET f == rOp'.func
             d == DecoratorNameOf(rOp'.op)
             before == DecoratedWith(functions, f)
         IN  /\ \A i \in 1..Len(functions') :
                   \A j, k \in 1..Len(functions'[i].decorated_with) :
                       functions'[i].decorated_with[j] = functions'[i].decorated_with[k] => j = k
             /\ IF \E k \in 1..Len(before) : before[k] = d
                THEN rOp'.raised = "DuplicateDecoratorError" /\ functions' = functions
                ELSE /\ rOp'.raised = "none"
                     /\ DecoratedWith(functions', f) = Append(before, d)]_vars

\* C12: a call of a function decorated with execute_if(predicate) first
\* evaluates the predicate on the call's arguments; the function is invoked
\* (exactly once, with the same arguments, its result returned) if and only
\* if the predicate's result is truthy, and otherwise the function is not
\* invoked and the call returns None.
C12_ExecuteIfPredicateDecides ==
    ucall.dec = "execute_if" =>
        LET pr == Predicate(uin.p, uin.x)
            fired == pr.kind = "return" /\ Bool(pr.val)
            invoked == {i \in 1..Len(ucall.events) : ucall.events[i].ev = "function"}
        IN  /\ ucall.events[1] = Event("predicate", uin.x)
            /\ fired => /\ invoked = {2}
                        /\ ucall.events[2].arg = uin.x
                        /\ ucall.out = Function(uin.f, uin.x)
            /\ ~fired => invoked = {}
            /\ (pr.kind = "return" /\ ~Bool(pr.val)) => ucall.out = Returns(NoneVal)

\* The predicate returned True for the call's argument and the function ran
\* on that argument, its result being returned.
C12_Witness ==
    /\ ucall.dec = "execute_if"
    /\ uin.p = "greater_than" /\ uin.x = IntV(2) /\ uin.f = "identity"
    /\ ucall.events = <<Event("predicate", IntV(2)), Event("function", IntV(2))>>
    /\ ucall.out = Returns(IntV(2))

\* C13: for every limit >= 0 the result of a function decorated with
\* truncate(limit) is the prefix of the undecorated output of length
\* min(len(output), limit), of the same kind (list, tuple or string).
C13_TruncatePrefix ==
    (tcall.ran /\ tcall.limit >= 0 /\ tcall.output.kind \in Sliceable) =>
        /\ tcall.raised = "none"
        /\ tcall.result.kind = tcall.output.kind
        /\ Len(tcall.result.items) = Min(Len(tcall.output.items), tcall.limit)
        /\ \A i \in 1..Len(tcall.result.items) :
               tcall.result.items[i] = tcall.output.items[i]

\* A tuple longer than the limit was cut down to the limit.
C13_Witness ==
    /\ tcall.ran
    /\ tcall.output = Output("tuple", <<1, 2>>)
    /\ tcall.limit = 1
    /\ tcall.result = Output("tuple", <<1>>)

C15_SlowerThanCallback ==
    (ucall.dec \in {"slower_than", "Decko.slower_than"}
        /\ Function(uin.f, uin.x).kind = "return") =>
        LET output == Function(uin.f, uin.x)
            cbs == {i \in 1..Len(ucall.events) : ucall.events[i].ev = "callback"}
            fns == {i \in 1..Len(ucall.events) : ucall.events[i].ev = "function"}
        IN  /\ fns = {1}
            /\ uin.elapsed > uin.time_ms =>
                  /\ cbs = {2}
                  /\ ucall.events[2].arg = FloatV(uin.elapsed)
            /\ ~(uin.elapsed > uin.time_ms) => cbs = {}
            /\ (cbs = {} \/ Callback(uin.cb, ucall.events[2].arg).kind = "return")
                  => ucall.out = output

C17_DebugOnlyBool ==
    /\ [](config.debug = IF dbgHist.lastBool = NoVal THEN dbgHist.ctor ELSE dbgHist.lastBool)
    /\ [][dbgOp'.op = "set" /\ nSets' # nSets =>
            IF dbgOp'.value.ty = "bool"
            THEN dbgOp'.raised = "none" /\ config'.debug = dbgOp'.value
            ELSE dbgOp'.raised = "TypeError" /\ config' = config]_vars

\* The int 1 was refused after True and False had been stored in turn.
C17_Witness ==
    /\ dbgOp = [op |-> "set", value |-> IntV(1), raised |-> "TypeError"]
    /\ dbgHist.lastBool = BoolV(FALSE)
    /\ config.debug = BoolV(FALSE)
    /\ nSets = 3

\* C18: for a class decorated with instance_data(setter=s), assigning a
\* value to an observed instance attribute calls s(instance, value) before
\* the value is stored; if s raises, the exception propagates and the
\* attribute keeps its previous value, and otherwise a subsequent read of
\* the attribute returns the assigned value.
C18_SetterBeforeStore ==
    (idOp.op = "assign" /\ FilterPredicate(idCls.filter, idOp.prop)) =>
        LET before == GetAttr(idCls.props, idOp.before, idOp.prop)
            after == GetAttr(idCls.props, idObj.dict, idOp.prop)
        IN  /\ idOp.setterRuns = 1
            /\ idOp.seen = before.value
            /\ idOp.raised = Setter(idOp.value)
            /\ idOp.raised # "none" => after = before
            /\ idOp.raised = "none" => after = [raised |-> "none", value |-> idOp.value]

\* The setter refused a value and the attribute still reads as the value
\* assigned before.
C18_Witness ==
    /\ idOp.op = "assign" /\ idOp.prop = "a"
    /\ idOp.raised = "ValueError"
    /\ idOp.value = 2 /\ idOp.seen = 1
    /\ nAssigns > 1
    /\ GetAttr(idCls.props, idObj.dict, "a") = [raised |-> "none", value |-> 1]

\* C19: the on_decorator_creation hook runs exactly once for each
\* application of the decorator to a function, at decoration time and before
\* any call of the decorated function, and never when the decorated function
\* is called; the values it returned are passed to the body on every call,
\* between the decorated function and the decorator arguments.
C19_HookOncePerApplication ==
    /\ [](nHookRuns = IF deco.hook = "none" THEN 0 ELSE nApplied)
    /\ [][nHookRuns' # nHookRuns => nWrapCalls' = 0 /\ dcall'.op = "none"]_vars
    /\ [][(nWrapCalls' = nWrapCalls + 1 /\ deco.hook # "none" /\ IsCallable(decn.decorated)) =>
            /\ nHookRuns' = nHookRuns
            /\ dcall'.bodyRan
            /\ LET a == IF Len(dcall'.bodyArgs) > 0
                            /\ dcall'.bodyArgs[1] \in {OwnerObj, FalsyOwner, OwnerCls}
                         THEN Tail(dcall'.bodyArgs) ELSE dcall'.bodyArgs
               IN  a = <<decn.decorated>> \o HookResult(deco).vals
                         \o wrap.decoArgs \o dcall'.args]_vars

\* C20: for a keyword template declared as a tuple (default, T1, ..., Tn)
\* the value the body receives for that keyword, the default or a value the
\* user supplied, is an instance of one of T1..Tn; applying the decorator
\* with a default or a supplied value of any other type raises TypeError at
\* application time.
C20_TupleTemplateTypeChecked ==
    app.op = "apply" =>
        \A j \in 1..Len(deco.tkw) :
            deco.tkw[j].isTuple =>
                LET received == IF app.kw[deco.tkw[j].key] = NoVal
                                THEN deco.tkw[j].default
                                ELSE app.kw[deco.tkw[j].key]
                IN  ~IsInstance(received, deco.tkw[j].types) =>
                        /\ app.out \notin {"pending", "wrapper"}
                        /\ Len(app.pos) = Len(deco.targs) => app.out = "TypeError"

\* C21 (as stated): a singleton(thread_safe=False) class returns the same
\* instance from every constructor call and runs the wrapped __init__ at
\* most once, also when two threads call the constructor concurrently.
C21_UnlockedOneInstance ==
    ~thread_safe => initRuns <= 1 /\ Cardinality(returned) <= 1

\* C21 (amended): as long as no two constructor calls have been in progress
\* at the same time, at most one run of the wrapped __init__ has returned
\* normally and every constructor call that returned returned the same
\* instance, the recorded one.
C21_SequentialOneInstance ==
    (~thread_safe /\ ~overlapped) =>
        /\ initRuns - initRaised <= 1
        /\ Cardinality(returned) <= 1
        /\ returned \subseteq {instance}
        /\ 0 \notin returned

\* Both threads have called the unlocked constructor one after the other,
\* one __init__ run completed and both calls returned its instance.
C21_Witness ==
    /\ ~thread_safe /\ ~overlapped
    /\ \A t \in Threads : calls[t] >= 1 /\ pc[t] = "idle" /\ ~raisedTo[t]
    /\ initRuns = 1
    /\ returned = {instance} /\ instance # 0

\* C22: when the wrapped __init__ raises during a constructor call of a
\* singleton(thread_safe=True) class, the exception reaches that caller (the
\* call returns no instance), the lock is released and no instance is
\* recorded; a later call therefore runs __init__ again, and once a run
\* succeeds its instance is the one every subsequent call returns.
C22_RaisingInitLeavesNoInstance ==
    /\ [][initRaised' # initRaised =>
             instance = 0 /\ instance' = 0 /\ returned' = returned]_vars
    /\ [](\A t \in Threads : raisedTo[t] => pc[t] \in {"release", "idle"})
    /\ [](\A t \in Threads : pc[t] = "idle" => lock # t)
    /\ [][\A t \in Threads :
             (pc[t] = "check2" /\ pc'[t] # "check2" /\ instance = 0) => pc'[t] = "init"]_vars
    /\ [][instance # 0 => instance' = instance]_vars
    /\ [](returned \subseteq {instance} /\ 0 \notin returned)

\* A run of __init__ raised to its caller, a later run succeeded and calls
\* made after it returned the instance of that run; the lock is free.
C22_Witness ==
    /\ thread_safe
    /\ initRaised >= 1
    /\ instance = initRuns /\ initRuns = initRaised + 1
    /\ returned = {instance}
    /\ lock = 0
    /\ \A t \in Threads : pc[t] = "idle" /\ calls[t] = MaxCalls

\* C23: under fair scheduling every constructor call of a
\* singleton(thread_safe=True) class made by any thread eventually ends (no
\* deadlock, no thread blocked forever on the lock), and it ends by
\* returning the instance unless its own run of __init__ raised.
C23_EveryCallEnds ==
    /\ \A t \in Threads : (pc[t] # "idle") ~> (pc[t] = "idle")
    /\ [][\A t \in Threads :
             (pc[t] # "idle" /\ pc'[t] = "idle") => (pc[t] = "ret" \/ raisedTo[t])]_vars

\* A thread waits for the lock while another thread holds it and is inside
\* the wrapped __init__.
C23_Witness ==
    \E t, u \in Threads :
        /\ t # u
        /\ pc[t] = "acquire"
        /\ lock = u /\ pc[u] = "init"

\* C24: with the default event_queue_size_limit of -1 every call of
\* Module._add_to_event_queue(msg), from any queue content including the
\* empty queue, terminates normally, removes no existing message and leaves
\* msg as the newest (right-most) element.
C24_UnlimitedQueueAppends ==
    (eqOp.op = "add" /\ eqOp.limit = DefaultSizeLimit) =>
        /\ eqOp.raised = "none"
        /\ event_queue = Append(eqOp.before, eqOp.msg)

\* C25: a call of a function decorated with run_before(functions) calls each
\* of the given functions exactly once, in the order given and with the
\* call's arguments, and only then calls the decorated function exactly once
\* (with the same arguments) and returns its result.
C25_RunBeforeThenFunction ==
    rbCall.variant # "none" =>
        /\ rbCall.events = Preprocess(rbCall.funcs, rbCall.args, rbCall.kw)
                             \o <<RbEvent("f", rbCall.args, rbCall.kw)>>
        /\ rbCall.out = CallTarget("f", rbCall.args, rbCall.kw).out

\* C28: fill_default_kwargs(fn, args, kwargs) adds the declared default of
\* each parameter of fn that the call supplied neither positionally nor by
\* keyword, leaves every keyword value the caller supplied unchanged and
\* never adds a parameter covered by a positional argument.
C28_FillKeepsSuppliedKeywords ==
    fdk.fn # "none" =>
        LET parameters == Signature(fdk.fn)
        IN  \A k \in KwKeys :
              /\ fdk.before[k] # NoVal => fdk.after[k] = fdk.before[k]
              /\ \A i \in 1..Len(parameters) :
                    parameters[i].name = k /\ fdk.before[k] = NoVal =>
                        fdk.after[k] = IF i <= Len(fdk.args) THEN NoVal
                                       ELSE parameters[i].default
              /\ ((\A i \in 1..Len(parameters) : parameters[i].name # k)
                      /\ fdk.before[k] = NoVal) => fdk.after[k] = NoVal

\* C26: a class decorated with Decko.freeze can be instantiated any number
\* of times: in every construction the assignments made inside __init__
\* succeed, and only assignments attempted on an instance after its
\* construction has finished raise ImmutableError.
C26_FrozenClassInstantiable ==
    /\ fOp.op = "instantiate" => fOp.raised = "none"
    /\ fOp.op = "assign" => fOp.raised = "ImmutableError"

\* C27: validate_inputs matches one to one: the k-th validation function is
\* applied to the k-th input of the call (positional arguments followed by
\* keyword values); ValueError is raised if any validation function rejects
\* its input, and the decorated function is called, with the original
\* arguments, only when all of them accept.
C27_ValidatorsMatchInputs ==
    LET inputs == vcall.args \o vcall.kw
        rejected == \E k \in 1..Len(vcall.vfs) : ~IsValid(vcall.vfs[k], inputs[k])
    IN  (vcall.op = "call" /\ Len(vcall.vfs) <= Len(inputs)) =>
            IF rejected
            THEN vcall.res.raised = "ValueError" /\ ~vcall.res.called
            ELSE /\ vcall.res.raised = "none" /\ vcall.res.called
                 /\ vcall.res.args = vcall.args /\ vcall.res.kw = vcall.kw

\* C29: when logger_factory returns, every handler that was attached to the
\* named logger before the call has been removed and the logger carries
\* only the handlers added by this call, so that repeated calls for the same
\* logger name never accumulate handlers.
C29_OnlyNewHandlers ==
    logOp.op = "call" =>
        /\ \A i \in 1..Len(logOp.before) :
              \A j \in 1..Len(logHandlers) : logHandlers[j] # logOp.before[i]
        /\ logHandlers = logOp.added
        /\ Len(logHandlers) <= 2

\* C30: for a TimeComputer constructed with a list accumulator and
\* log_interval k >= 1, after n non-nested with-blocks have been left
\* run_count equals n, the list has grown by exactly one entry per block and
\* log_callback has been invoked exactly once at each exit where run_count
\* was a multiple of k, floor(n/k) times in all (inside a block run_count
\* already counts that block).
C30_TimeComputerCounts ==
    tc.constructed =>
        LET n == tcHist.exits
            k == tc.log_interval
        IN  /\ tc.run_count = n + (IF tc.entered THEN 1 ELSE 0)
            /\ Len(tc.accumulated_time) = tcHist.initial + n
            /\ Len(tcLogs) = n \div k
            /\ \A i \in 1..Len(tcLogs) :
                  /\ tcLogs[i].run_count = i * k
                  /\ tcLogs[i].len = tcHist.initial + i * k

\* Four blocks have been left with log_interval 2: the callback ran at the
\* second and the fourth exit.
C30_Witness ==
    /\ tc.constructed /\ ~tc.entered
    /\ tc.log_interval = 2
    /\ tcHist.exits = 4 /\ tc.run_count = 4
    /\ Len(tcLogs) = 2 /\ tcLogs[2].run_count = 4

====
